---------------------------- MODULE Spec2Model ----------------------------
(***************************************************************************)
(* Money Goals: the Goal Ledger (GoalsProvider), the Unallocated Funds     *)
(* Queue (UnallocatedFundsProvider), the inbox endpoint that feeds it and  *)
(* the allocation handlers that move money from the queue to the ledger.   *)
(*                                                                         *)
(* Money is counted in cents, so the code's 0.01 is 1 and arithmetic is    *)
(* exact (the code's IEEE doubles are exact on these values too).  Titles, *)
(* notes and dates play no part in any balance and are left out of the     *)
(* records.  crypto.randomUUID() is a counter of fresh identifiers.        *)
(* Each action is one event handler together with the render and the       *)
(* effects that follow it.                                                 *)
(***************************************************************************)
EXTENDS Integers, Sequences, FiniteSets, TLC

VARIABLES
    goals,          \* GoalsProvider: Goal[]
    goalDeposits,   \* GoalsProvider: GoalDeposit[] (audit log)
    orderedGoals,   \* SettingsView: local copy for drag reorder
    isOpen,         \* SettingsView: the panel is shown
    deposits,       \* UnallocatedFundsProvider: UnallocatedDeposit[]
    inbox,          \* server: the deposit queue of the account
    entries,        \* SpendingProvider: SpendingEntry[]
    bills,          \* BillsProvider: Bill[]
    billPayments,   \* BillsProvider: BillPayment[]
    nextId,         \* number of identifiers uuid() has handed out
    last,           \* the last call: its name, arguments and what it returned
    redisQueue,     \* /api/external: the Redis list of queued deposits
    fileQueue,      \* /api/external: the queue file under /tmp
    redisSlot,      \* /api/external: the snapshot keys in Redis, by type
    fileSlot,       \* /api/external: the snapshot files under /tmp, by type
    redisCached,    \* redis.ts: a connected client is cached
    gets,           \* /api/external: the GET requests in flight
    srvId,          \* number of deposits the server has given an id
    nextVersion,    \* number of snapshot payloads sent so far
    stored,         \* by type, the payload most recently stored
    returned,       \* ids of the deposits the GET responses have carried, in order
    http,           \* the last request to /api/external and its response
    appData,        \* the appData snapshot of the account that GET /api/external returns
    redisGoals,     \* /api/goals: whether REDIS_URL is set, and the Goal[] under GOALS_KEY
    hydration,      \* store.tsx GoalsProvider: the fetch its mount effect started
    routes,         \* SettingsView: LetterRoute[], the directory shown to the admin
    storedRoutes,   \* localStorage: the value under ROUTES_KEY
    polling,        \* useExternalSync: the poll whose GET is in flight
    mounted,        \* the component that calls useExternalSync is mounted
    pushes,         \* number of __WEBSITE_SYNC__ requests pushWebsiteData has issued
    redisDb,        \* the Redis server: the value under each key
    tmpDir,         \* /tmp/.external-queue: the content of each file
    localStore,     \* localStorage of the browser: the value under each key
    posts           \* /api/external: the POSTs between readQueue and writeQueue

\* the website client
appVars == <<goals, goalDeposits, orderedGoals, isOpen, deposits, inbox, entries, bills,
             billPayments, nextId>>

\* the inbox endpoint
serverVars == <<redisQueue, fileQueue, redisSlot, fileSlot, redisCached, gets, srvId,
                nextVersion, stored, returned, http>>

\* what the counterpart app has stored for the website
syncVars == <<appData>>

\* the goal list in Redis and the hydration of the provider
hydrateVars == <<redisGoals, hydration>>

\* the route directory of the settings panel and its copy in localStorage
shellVars == <<routes, storedRoutes>>

\* the poll cycle of useExternalSync
pollVars == <<polling, mounted, pushes>>

\* the key-value stores behind the accounts
storeVars == <<redisDb, tmpDir, localStore>>

\* the requests in flight on the file-backed queue
raceVars == <<posts>>

laterVars == <<shellVars, pollVars, storeVars, raceVars>>

\* what the handlers of the ledgers and of the holding area leave alone
otherVars == <<serverVars, syncVars, hydrateVars, laterVars>>

vars == <<appVars, last, serverVars, syncVars, hydrateVars, laterVars>>

---------------------------------------------------------------------------
(* Bounds of the model *)

\* goals in the chain beyond which the settings panel adds no further goal
MaxGoals == 3
\* uuid() calls (goals, side goals, GoalDeposit records, held deposits) after
\* which no handler that needs a fresh identifier is started
MaxIds == 2
\* the same limit for the handlers of the holding area (a held deposit, a side goal
\* or bill to allocate it to, and the record of the allocation)
MaxQueueIds == 3
\* deposits in the inbox and the holding area together
MaxHeld == 2
\* bills in the Bill Ledger
MaxBills == 1
\* GET requests to the inbox in flight at once
MaxGets == 2
\* deposits the inbox enqueues in one run
MaxEnqueued == 1
\* snapshot payloads sent to the inbox in one run
MaxWrites == 2

\* targetAmount of a goal added in the settings panel ($1000)
TargetAmounts == {100000}
\* targetAmount of a side goal or sub-goal ($3000)
SideTargets == {300000}
\* amounts entered in a funding form ($2500, $6000)
FundAmounts == {250000, 600000}
\* amountCAD and amountUSD of a POST to the inbox: no amount, USD only, CA$0.01,
\* CA$2500, and a negative CAD amount beside a USD amount
PostBodies ==
    {[amountCAD |-> 0, amountUSD |-> 0], [amountCAD |-> 0, amountUSD |-> 100000],
     [amountCAD |-> 1, amountUSD |-> 0], [amountCAD |-> 250000, amountUSD |-> 0],
     [amountCAD |-> -500, amountUSD |-> 100000]}
\* amounts passed to allocateDeposit ($0, $1000, $2500)
AllocAmounts == {0, 100000, 250000}
\* amounts entered in an allocation form ($1000, $6000)
EnteredAmounts == {100000, 600000}
\* amount of a bill ($500)
BillAmounts == {50000}

---------------------------------------------------------------------------
(* Helpers *)

Min(a, b) == IF a <= b THEN a ELSE b

Max(a, b) == IF a >= b THEN a ELSE b

Range(s) == {s[i] : i \in DOMAIN s}

RECURSIVE SeqSum(_)
SeqSum(s) == IF s = <<>> THEN 0 ELSE Head(s) + SeqSum(Tail(s))

\* variant: the comparator reversed, (a, b) => b.orderIndex - a.orderIndex
RECURSIVE InsertByOrderDesc(_, _)
InsertByOrderDesc(s, g) ==
    IF s = <<>> THEN <<g>>
    ELSE IF g.orderIndex > Head(s).orderIndex THEN <<g>> \o s
         ELSE <<Head(s)>> \o InsertByOrderDesc(Tail(s), g)

\* insert g behind every element whose orderIndex is not larger (stable)
RECURSIVE InsertByOrder(_, _)
InsertByOrder(s, g) ==
    IF s = <<>> THEN <<g>>
    ELSE IF g.orderIndex < Head(s).orderIndex THEN <<g>> \o s
         ELSE <<Head(s)>> \o InsertByOrder(Tail(s), g)

\* [...gs].sort((a, b) => a.orderIndex - b.orderIndex): a stable sort
RECURSIVE SortByOrderIndex(_)
SortByOrderIndex(gs) ==
    IF gs = <<>> THEN <<>>
    ELSE InsertByOrder(SortByOrderIndex(SubSeq(gs, 1, Len(gs) - 1)), gs[Len(gs)])

\* uuid(): the n-th fresh identifier; the seeds are 1, 2, 3
SeedCount == 3
Uuid(n) == SeedCount + n + 1

\* an identifier no goal has (a goal removed since the form was filled in)
NoSuchId == 0

---------------------------------------------------------------------------
(* State after construction *)

DEFAULT_GOALS ==
    << [id |-> 1, targetAmount |-> 500000, currentAmount |-> 0, orderIndex |-> 0, sideGoals |-> <<>>],
       [id |-> 2, targetAmount |-> 300000, currentAmount |-> 0, orderIndex |-> 1, sideGoals |-> <<>>],
       [id |-> 3, targetAmount |-> 200000, currentAmount |-> 0, orderIndex |-> 2, sideGoals |-> <<>>] >>

EmptyMap == [x \in {} |-> 0]

\* the record of a call: its name, its arguments, the allocation map it returned and
\* the provider functions the handler called, in the order of the calls
Call(op, amount, a, b, ret) ==
    [op |-> op, amount |-> amount, a |-> a, b |-> b, ret |-> ret, target |-> "", by |-> "",
     calls |-> <<>>]

\* the record of a call no property looks into
Plain(op) == Call(op, 0, 0, 0, EmptyMap)

\* the snapshot slots of an account: the type argument of readSyncData / writeSyncData
SlotTypes == {"accounts", "full-sync", "website-sync"}

\* a slot nothing was written to (readSyncData returns null)
NullData == 0

\* the appData of a GET when the counterpart app has stored none (null)
NoAppData == [present |-> FALSE, expenses |-> <<>>, recurringExpenses |-> <<>>]

\* a request slot of the server with no GET in it
Idle == [pc |-> "idle", queue |-> <<>>, redis |-> FALSE]

\* the record of a request to /api/external and of its response
Http(method, body, status, queue, accountData, fullSyncData, websiteData) ==
    [method |-> method, body |-> body, status |-> status, deposits |-> queue,
     accountSync |-> accountData, appData |-> fullSyncData, websiteData |-> websiteData]

\* the body of a request that carries nothing
NoBody ==
    [hasAccount |-> TRUE, note |-> "", amountCAD |-> 0, amountUSD |-> 0,
     accountSync |-> FALSE, appData |-> FALSE]

\* the provider once its mount effect has run to the end
Hydrated == [pc |-> "done", isNull |-> TRUE, remote |-> <<>>, current |-> <<>>]

\* localStorage.getItem(ROUTES_KEY) when nothing was saved (null)
NoRoutes == [present |-> FALSE, value |-> <<>>]

\* no GET of a poll is in flight
\* a POST slot with no request in flight
NoPost == [pc |-> "idle", queue |-> <<>>, deposit |-> 0]

NoPoll == [pc |-> "idle", outcome |-> "", deposits |-> <<>>, appData |-> NoAppData,
           live |-> TRUE]

\* everything but the goal list, its copy in Redis and the hydration
InitRest ==
    /\ goalDeposits = <<>>
    /\ isOpen = FALSE
    /\ deposits = <<>>
    /\ inbox = <<>>
    /\ entries = <<>>
    /\ bills = <<>>
    /\ billPayments = <<>>
    /\ nextId = 0
    /\ redisQueue = <<>>
    /\ fileQueue = <<>>
    /\ redisSlot = [t \in SlotTypes |-> NullData]
    /\ fileSlot = [t \in SlotTypes |-> NullData]
    /\ redisCached = FALSE
    /\ gets = [r \in 1 .. MaxGets |-> Idle]
    /\ srvId = 0
    /\ nextVersion = 0
    /\ stored = [t \in SlotTypes |-> NullData]
    /\ returned = <<>>
    /\ http = Http("", NoBody, 0, <<>>, NullData, NullData, NullData)
    /\ appData = NoAppData
    /\ routes = <<>>
    /\ storedRoutes = NoRoutes
    /\ polling = NoPoll
    /\ mounted = TRUE
    /\ pushes = 0
    /\ redisDb = EmptyMap
    /\ tmpDir = EmptyMap
    /\ localStore = EmptyMap
    /\ posts = [w \in 1 .. MaxGets |-> NoPost]
    /\ last = Plain("init")

\* the state after construction and hydration, with no REDIS_URL configured
Init ==
    /\ goals = DEFAULT_GOALS
    /\ orderedGoals = SortByOrderIndex(DEFAULT_GOALS)
    /\ redisGoals = [configured |-> FALSE, goals |-> <<>>]
    /\ hydration = Hydrated
    /\ InitRest

---------------------------------------------------------------------------
(* Goal Ledger: the pure parts of GoalsProvider *)

GoalIds(gs) == {gs[i].id : i \in DOMAIN gs}

SideGoalIds(g) == {g.sideGoals[i].id : i \in DOMAIN g.sideGoals}

\* allocation[id] = deposit
Put(m, k, v) == [x \in (DOMAIN m) \cup {k} |-> IF x = k THEN v ELSE m[x]]

\* goals.reduce((max, g) => Math.max(max, g.orderIndex), -1)
RECURSIVE MaxOrder(_)
MaxOrder(gs) == IF gs = <<>> THEN -1 ELSE Max(MaxOrder(SubSeq(gs, 1, Len(gs) - 1)), gs[Len(gs)].orderIndex)

\* variant: the new goal takes the largest orderIndex in use
NewOrderIndexSame(gs) == MaxOrder(gs)
\* the orderIndex addGoal gives the new goal: maxOrder + 1
NewOrderIndex(gs) == MaxOrder(gs) + 1

\* addGoal: [...prev, newGoal]
AddGoalTo(gs, id, targetAmount) ==
    Append(gs, [id |-> id, targetAmount |-> targetAmount, currentAmount |-> 0,
                orderIndex |-> NewOrderIndex(gs), sideGoals |-> <<>>])

\* variant: no renumbering
KeepOrderIndex(gs) == gs
\* .map((g, i) => ({ ...g, orderIndex: i }))
Reindex(gs) == [i \in DOMAIN gs |-> [gs[i] EXCEPT !.orderIndex = i - 1]]

\* removeGoal: filter, sort by orderIndex, reindex
RemoveGoalFrom(gs, id) ==
    Reindex(SortByOrderIndex(SelectSeq(gs, LAMBDA g : g.id # id)))

\* variant: the whole amount, whatever the capacity
DepositUncapped(amount, capacity) == amount
\* Math.min(remaining, capacity), Math.min(amount, target - current)
DepositOf(amount, capacity) == Min(amount, capacity)

\* variant: a key for every goal the loop visits
AllocatedAlways(allocation, id, deposit) == Put(allocation, id, deposit)
\* if (deposit > 0) allocation[goal.id] = deposit
Allocated(allocation, id, deposit) ==
    IF deposit > 0 THEN Put(allocation, id, deposit) ELSE allocation

\* addFunds: the walk over the sorted chain, from position i on
RECURSIVE Waterfall(_, _, _, _)
Waterfall(sorted, i, remaining, acc) ==
    IF i > Len(sorted) THEN acc
    ELSE LET goal == sorted[i] IN
         IF remaining <= 0
         THEN Waterfall(sorted, i + 1, remaining,
                        [acc EXCEPT !.goals = Append(@, goal)])
         ELSE LET capacity == goal.targetAmount - goal.currentAmount
                  deposit  == DepositOf(remaining, capacity)
              IN  Waterfall(sorted, i + 1, remaining - deposit,
                            [goals |-> Append(acc.goals,
                                              [goal EXCEPT !.currentAmount = @ + deposit]),
                             allocation |-> Allocated(acc.allocation, goal.id, deposit)])

\* addFunds(amount) on the goal list gs: the updated goals and the allocation
AddFundsTo(gs, amount) ==
    Waterfall(SortByOrderIndex(gs), 1, amount, [goals |-> <<>>, allocation |-> EmptyMap])

\* Object.entries(allocation).map(...): one record per key, in insertion order
AllocationRecords(gs, allocation, n) ==
    LET sorted == SortByOrderIndex(gs)
        hit    == SelectSeq(sorted, LAMBDA g : g.id \in DOMAIN allocation)
    IN  [i \in DOMAIN hit |->
            [id |-> Uuid(n + i - 1), goalId |-> hit[i].id,
             amount |-> allocation[hit[i].id], isSideGoal |-> FALSE]]

\* addFundsToGoal: prev.map(...)
AddFundsToGoalIn(gs, goalId, amount) ==
    [i \in DOMAIN gs |->
        IF gs[i].id # goalId THEN gs[i]
        ELSE [gs[i] EXCEPT !.currentAmount =
                  @ + DepositOf(amount, gs[i].targetAmount - gs[i].currentAmount)]]

\* addFundsToGoal: const g = goals.find(...); actualDeposit
ActualDeposit(gs, goalId, amount) ==
    IF goalId \in GoalIds(gs)
    THEN LET g == CHOOSE x \in Range(gs) : x.id = goalId
         IN  DepositOf(amount, g.targetAmount - g.currentAmount)
    ELSE amount

\* addFundsToGoal: if (actualDeposit > 0) setGoalDeposits(...)
GoalRecords(gs, goalId, amount, n) ==
    IF ActualDeposit(gs, goalId, amount) > 0
    THEN << [id |-> Uuid(n), goalId |-> goalId,
             amount |-> ActualDeposit(gs, goalId, amount), isSideGoal |-> FALSE] >>
    ELSE <<>>

\* addFundsToSideGoal: if (amount > 0) setGoalDeposits(...)
SideGoalRecords(sideGoalId, amount, n) ==
    IF amount > 0
    THEN << [id |-> Uuid(n), goalId |-> sideGoalId, amount |-> amount, isSideGoal |-> TRUE] >>
    ELSE <<>>

NewSideGoal(id, targetAmount) ==
    [id |-> id, targetAmount |-> targetAmount, currentAmount |-> 0, subGoals |-> <<>>]

\* addSideGoal: prev.map(...)
AddSideGoalIn(gs, parentGoalId, id, targetAmount) ==
    [i \in DOMAIN gs |->
        IF gs[i].id # parentGoalId THEN gs[i]
        ELSE [gs[i] EXCEPT !.sideGoals = Append(@, NewSideGoal(id, targetAmount))]]

\* variant: the map also descends into subGoals, so that a sub-goal with the
\* addressed id takes the deposit
FundSideGoalInDeep(sgs, sideGoalId, amount) ==
    [j \in DOMAIN sgs |->
        IF sgs[j].id = sideGoalId
        THEN [sgs[j] EXCEPT !.currentAmount =
                 @ + DepositOf(amount, sgs[j].targetAmount - sgs[j].currentAmount)]
        ELSE [sgs[j] EXCEPT !.subGoals =
                 [k \in DOMAIN sgs[j].subGoals |->
                     LET sub == sgs[j].subGoals[k]
                     IN  IF sub.id # sideGoalId THEN sub
                         ELSE [sub EXCEPT !.currentAmount =
                                  sub.currentAmount
                                     + DepositOf(amount, sub.targetAmount - sub.currentAmount)]]]]

\* variant: the map without the test of sg.id, so that every side goal of the
\* parent takes the deposit
FundSideGoalInEvery(sgs, sideGoalId, amount) ==
    [j \in DOMAIN sgs |->
        [sgs[j] EXCEPT !.currentAmount =
            @ + DepositOf(amount, sgs[j].targetAmount - sgs[j].currentAmount)]]

\* addFundsToSideGoal: (g.sideGoals || []).map(...)
FundSideGoalIn(sgs, sideGoalId, amount) ==
    [j \in DOMAIN sgs |->
        IF sgs[j].id # sideGoalId THEN sgs[j]
        ELSE [sgs[j] EXCEPT !.currentAmount =
                 @ + DepositOf(amount, sgs[j].targetAmount - sgs[j].currentAmount)]]

\* addFundsToSideGoal: prev.map(...)
AddFundsToSideGoalIn(gs, parentGoalId, sideGoalId, amount) ==
    [i \in DOMAIN gs |->
        IF gs[i].id # parentGoalId THEN gs[i]
        ELSE [gs[i] EXCEPT !.sideGoals = FundSideGoalIn(@, sideGoalId, amount)]]

---------------------------------------------------------------------------
(* Goal Ledger: the handlers *)

\* SettingsView: useEffect(() => setOrderedGoals(sorted goals), [goals, isOpen])
SyncOrdered == orderedGoals' = SortByOrderIndex(goals')

\* MainView: setSettingsOpen(true)
OpenSettings ==
    /\ ~isOpen
    /\ isOpen' = TRUE
    /\ orderedGoals' = SortByOrderIndex(goals)
    /\ last' = Plain("openSettings")
    /\ UNCHANGED <<goals, goalDeposits, deposits, inbox, entries, bills, billPayments, nextId, otherVars>>

\* Reorder.Group onReorder={setOrderedGoals}: a dragged item passes its neighbour
Reorder(i) ==
    /\ isOpen
    /\ i \in 1 .. (Len(orderedGoals) - 1)
    /\ orderedGoals' = [orderedGoals EXCEPT ![i] = orderedGoals[i + 1],
                                            ![i + 1] = orderedGoals[i]]
    /\ last' = Plain("reorder")
    /\ UNCHANGED <<goals, goalDeposits, isOpen, deposits, inbox, entries, bills, billPayments, nextId, otherVars>>

\* SettingsView.handleClose: setGoals(reindexed); onClose()
handleClose ==
    /\ isOpen
    /\ goals' = Reindex(orderedGoals)
    /\ isOpen' = FALSE
    /\ SyncOrdered
    /\ last' = Plain("handleClose")
    /\ UNCHANGED <<goalDeposits, deposits, inbox, entries, bills, billPayments, nextId, otherVars>>

\* SettingsView.handleAddGoal -> GoalsProvider.addGoal
addGoal(targetAmount) ==
    /\ isOpen
    /\ nextId < MaxIds
    /\ Len(goals) < MaxGoals
    /\ goals' = AddGoalTo(goals, Uuid(nextId), targetAmount)
    /\ nextId' = nextId + 1
    /\ SyncOrdered
    /\ last' = Plain("addGoal")
    /\ UNCHANGED <<goalDeposits, isOpen, deposits, inbox, entries, bills, billPayments, otherVars>>

\* SettingsView trash button -> GoalsProvider.removeGoal
removeGoal(id) ==
    /\ isOpen
    /\ goals' = RemoveGoalFrom(goals, id)
    /\ SyncOrdered
    /\ last' = Call("removeGoal", 0, id, 0, EmptyMap)
    /\ UNCHANGED <<goalDeposits, isOpen, deposits, inbox, entries, bills, billPayments, nextId, otherVars>>

\* GoalsProvider.addFunds
addFunds(amount) ==
    /\ nextId < MaxIds
    /\ LET r == AddFundsTo(goals, amount)
           newDeposits == AllocationRecords(goals, r.allocation, nextId)
       IN  /\ goals' = r.goals
           /\ goalDeposits' = goalDeposits \o newDeposits
           /\ nextId' = nextId + Len(newDeposits)
           /\ last' = Call("addFunds", amount, 0, 0, r.allocation)
    /\ SyncOrdered
    /\ UNCHANGED <<isOpen, deposits, inbox, entries, bills, billPayments, otherVars>>

\* GoalsProvider.addFundsToGoal
addFundsToGoal(goalId, amount) ==
    /\ nextId < MaxIds
    /\ goals' = AddFundsToGoalIn(goals, goalId, amount)
    /\ LET newDeposits == GoalRecords(goals, goalId, amount, nextId)
       IN  /\ goalDeposits' = goalDeposits \o newDeposits
           /\ nextId' = nextId + Len(newDeposits)
    /\ SyncOrdered
    /\ last' = Call("addFundsToGoal", amount, goalId, 0, EmptyMap)
    /\ UNCHANGED <<isOpen, deposits, inbox, entries, bills, billPayments, otherVars>>

\* MainView.handleAddSideGoal -> GoalsProvider.addSideGoal
addSideGoal(parentGoalId, targetAmount) ==
    /\ nextId < MaxIds
    /\ goals' = AddSideGoalIn(goals, parentGoalId, Uuid(nextId), targetAmount)
    /\ nextId' = nextId + 1
    /\ SyncOrdered
    /\ last' = Plain("addSideGoal")
    /\ UNCHANGED <<goalDeposits, isOpen, deposits, inbox, entries, bills, billPayments, otherVars>>

\* GoalsProvider.addFundsToSideGoal
addFundsToSideGoal(parentGoalId, sideGoalId, amount) ==
    /\ nextId < MaxIds
    /\ goals' = AddFundsToSideGoalIn(goals, parentGoalId, sideGoalId, amount)
    /\ LET newDeposits == SideGoalRecords(sideGoalId, amount, nextId)
       IN  /\ goalDeposits' = goalDeposits \o newDeposits
           /\ nextId' = nextId + Len(newDeposits)
    /\ SyncOrdered
    /\ last' = Call("addFundsToSideGoal", amount, parentGoalId, sideGoalId, EmptyMap)
    /\ UNCHANGED <<isOpen, deposits, inbox, entries, bills, billPayments, otherVars>>

LedgerNext ==
    \/ OpenSettings
    \/ \E i \in 1 .. Len(orderedGoals) : Reorder(i)
    \/ handleClose
    \/ \E t \in TargetAmounts : addGoal(t)
    \/ \E id \in GoalIds(goals) : removeGoal(id)
    \/ \E amount \in FundAmounts : addFunds(amount)
    \/ \E goalId \in GoalIds(goals) \cup {NoSuchId}, amount \in FundAmounts :
          addFundsToGoal(goalId, amount)
    \/ \E p \in GoalIds(goals), t \in SideTargets : addSideGoal(p, t)
    \/ \E i \in DOMAIN goals : \E sg \in SideGoalIds(goals[i]), amount \in FundAmounts :
          addFundsToSideGoal(goals[i].id, sg, amount)

Spec == Init /\ [][LedgerNext]_vars

---------------------------------------------------------------------------
(* The inbox and the Unallocated Funds Queue: pure operators *)

\* UnallocatedFundsProvider.allocateDeposit: the 0.01 under which a remainder is dropped
EPSILON == 1

\* the value of the "auto" option of the allocation forms
AutoFill == -1

\* variant: an amount check that wants both amounts positive
AcceptsBoth(amountCAD, amountUSD) == amountCAD > 0 /\ amountUSD > 0

\* POST /api/external: the amount check
Accepts(amountCAD, amountUSD) == ~(amountCAD <= 0 /\ amountUSD <= 0)

DepositIds(ds) == {ds[i].id : i \in DOMAIN ds}

DepositOfId(ds, id) == CHOOSE d \in Range(ds) : d.id = id

\* UnallocatedFundsProvider.totalUnallocated
TotalUnallocated(ds) == SeqSum([i \in DOMAIN ds |-> ds[i].amountCAD])

\* useExternalSync.processDeposits: addDeposit for each deposit of the response
AddDeposits(ds, queued, n) ==
    ds \o [i \in DOMAIN queued |->
              [id |-> Uuid(n + i - 1),
               amountCAD |-> queued[i].amountCAD,
               amountUSD |-> queued[i].amountUSD]]

\* variant: only an overdrawn deposit is dropped
FullyAllocatedBelowZero(remaining) == remaining < 0
\* allocateDeposit: remaining <= 0.01
FullyAllocated(remaining) == remaining <= EPSILON

\* UnallocatedFundsProvider.allocateDeposit
AllocateDepositIn(ds, depositId, amount) ==
    LET reduced == [i \in DOMAIN ds |->
                       IF ds[i].id # depositId THEN ds[i]
                       ELSE [ds[i] EXCEPT !.amountCAD = @ - amount]]
    IN  SelectSeq(reduced, LAMBDA d : d.id # depositId \/ ~FullyAllocated(d.amountCAD))

\* UnallocatedFundsProvider.removeDeposit
RemoveDepositIn(ds, id) == SelectSeq(ds, LAMBDA d : d.id # id)

\* goalOptions of SettingsView and FundingInbox: "auto", then every goal and side
\* goal with remaining capacity
GoalOptions(gs) ==
    {[id |-> AutoFill, parentId |-> NoSuchId, isSide |-> FALSE]}
    \cup {[id |-> gs[i].id, parentId |-> NoSuchId, isSide |-> FALSE] :
             i \in {k \in DOMAIN gs : gs[k].targetAmount - gs[k].currentAmount > 0}}
    \cup UNION {{[id |-> gs[i].sideGoals[j].id, parentId |-> gs[i].id, isSide |-> TRUE] :
                    j \in {k \in DOMAIN gs[i].sideGoals :
                              gs[i].sideGoals[k].targetAmount
                                 - gs[i].sideGoals[k].currentAmount > 0}} :
                i \in DOMAIN gs}

\* the "goal" branch of an allocation: the ledger call it makes, with the goals and
\* the GoalDeposit records that call leaves
GoalBranch(gs, opt, amount, n) ==
    IF opt.id = AutoFill
    THEN LET r == AddFundsTo(gs, amount)
         IN  [goals |-> r.goals, records |-> AllocationRecords(gs, r.allocation, n)]
    ELSE IF opt.isSide /\ opt.parentId # NoSuchId
    THEN [goals |-> AddFundsToSideGoalIn(gs, opt.parentId, opt.id, amount),
          records |-> SideGoalRecords(opt.id, amount, n)]
    ELSE [goals |-> AddFundsToGoalIn(gs, opt.id, amount),
          records |-> GoalRecords(gs, opt.id, amount, n)]

UnpaidBillIds(bs) == {bs[i].id : i \in {k \in DOMAIN bs : ~bs[k].isPaid}}

\* lastPaidDate of a bill that was never paid (the field is absent)
NoDate == 0

\* BillsProvider.togglePaid: the bills; the date of a payment stands for the instant
\* it is made, a different one for every payment
TogglePaidIn(bs, id, n) ==
    [i \in DOMAIN bs |->
        IF bs[i].id # id THEN bs[i]
        ELSE [bs[i] EXCEPT !.isPaid = ~@,
                           !.lastPaidDate = IF ~bs[i].isPaid THEN Uuid(n) ELSE @]]

\* BillsProvider.togglePaid: the payment recorded when a bill becomes paid
PaymentsOf(bs, id, n) ==
    LET hit == SelectSeq(bs, LAMBDA b : b.id = id /\ ~b.isPaid)
    IN  [i \in DOMAIN hit |-> [id |-> Uuid(n + i - 1), amount |-> hit[i].amount]]

\* the forms a user can submit: the target tab, the option of the goal select and
\* the option of the bill select ("" when none is chosen)
AllocForms(gs, bs, billIds) ==
    {[target |-> "goal", goal |-> opt, billId |-> NoSuchId] : opt \in GoalOptions(gs)}
    \cup {[target |-> "expense", goal |-> o, billId |-> NoSuchId] :
             o \in {[id |-> AutoFill, parentId |-> NoSuchId, isSide |-> FALSE]}}
    \cup {[target |-> "bill", goal |-> o, billId |-> b] :
             o \in {[id |-> AutoFill, parentId |-> NoSuchId, isSide |-> FALSE]},
             b \in billIds}

---------------------------------------------------------------------------
(* useExternalSync: the merges of a poll *)

\* the components that mount useExternalSync
Pollers == {"AppShell", "MainView"}

\* `app-${id}`: the local id of a remote expense or recurring bill; no uuid() has
\* this form, and different remote ids give different local ids
AppIdBase == 100
SyncId(id) == AppIdBase + id

\* variant: the loop leaves after the first expense it pushes
MergeAppExpensesFirstOnly(es, appExpenses) ==
    LET existingIds == {es[i].id : i \in DOMAIN es}
        fresh == SelectSeq(appExpenses, LAMBDA ae : SyncId(ae.id) \notin existingIds)
    IN  IF fresh = <<>> THEN es
        ELSE Append(es, [id |-> SyncId(fresh[1].id), amount |-> fresh[1].amount])

\* mergeAppExpenses: existingIds is built once from the current entries, every
\* remote expense whose local id is not in it is pushed, and the entries become the
\* current ones followed by the new ones
MergeAppExpenses(es, appExpenses) ==
    LET existingIds == {es[i].id : i \in DOMAIN es}
        fresh == SelectSeq(appExpenses, LAMBDA ae : SyncId(ae.id) \notin existingIds)
    IN  es \o [i \in DOMAIN fresh |-> [id |-> SyncId(fresh[i].id), amount |-> fresh[i].amount]]

\* variant: the merge of one remote bill that resets the paid flag when it updates
UpsertBillUnpaid(bs, ar) ==
    IF ~ar.active THEN bs
    ELSE IF \A i \in DOMAIN bs : bs[i].id # SyncId(ar.id)
    THEN Append(bs, [id |-> SyncId(ar.id), name |-> ar.name, amount |-> ar.amount,
                     isPaid |-> FALSE, lastPaidDate |-> NoDate])
    ELSE [i \in DOMAIN bs |->
             IF bs[i].id = SyncId(ar.id)
             THEN [bs[i] EXCEPT !.name = ar.name, !.amount = ar.amount, !.isPaid = FALSE]
             ELSE bs[i]]

\* mergeAppBills, one remote bill: skipped when active === false, inserted unpaid
\* when billMap has no such id, else name and amount are overwritten in place
UpsertBill(bs, ar) ==
    IF ~ar.active THEN bs
    ELSE IF \A i \in DOMAIN bs : bs[i].id # SyncId(ar.id)
    THEN Append(bs, [id |-> SyncId(ar.id), name |-> ar.name, amount |-> ar.amount,
                     isPaid |-> FALSE, lastPaidDate |-> NoDate])
    ELSE [i \in DOMAIN bs |->
             IF bs[i].id = SyncId(ar.id)
             THEN [bs[i] EXCEPT !.name = ar.name, !.amount = ar.amount]
             ELSE bs[i]]

\* mergeAppBills: the loop over the remote bills
RECURSIVE MergeAppBills(_, _)
MergeAppBills(bs, appRecurring) ==
    IF appRecurring = <<>> THEN bs
    ELSE MergeAppBills(UpsertBill(bs, Head(appRecurring)), Tail(appRecurring))

---------------------------------------------------------------------------
(* The inbox and the Unallocated Funds Queue: actions *)

\* POST /api/external with letter and code of the account and a note that is no sentinel
POST(amountCAD, amountUSD) ==
    /\ Len(inbox) + Len(deposits) < MaxHeld
    /\ inbox' = IF Accepts(amountCAD, amountUSD)
                THEN Append(inbox, [amountCAD |-> amountCAD, amountUSD |-> amountUSD])
                ELSE inbox
    /\ last' = Call("POST", amountCAD, amountUSD,
                    IF Accepts(amountCAD, amountUSD) THEN 200 ELSE 400, EmptyMap)
    /\ UNCHANGED <<goals, goalDeposits, orderedGoals, isOpen, deposits, entries, bills,
                   billPayments, nextId, otherVars>>

\* useExternalSync.poll of the hook mounted by p: GET /api/external empties the
\* inbox, processDeposits puts what it held into the holding area, and the appData
\* of the response is merged into the Spending Ledger and the Bill Ledger (a poll
\* that finds the inbox empty and no appData changes none of the variables).  The
\* refs the merges read hold the ledgers of the last render: React runs the effects
\* that copy them before it runs the next handler
poll(p) ==
    /\ inbox # <<>> \/ appData.present
    /\ nextId + Len(inbox) <= MaxQueueIds
    /\ deposits' = AddDeposits(deposits, inbox, nextId)
    /\ inbox' = <<>>
    /\ nextId' = nextId + Len(inbox)
    /\ entries' = IF appData.present THEN MergeAppExpenses(entries, appData.expenses)
                  ELSE entries
    /\ bills' = IF appData.present THEN MergeAppBills(bills, appData.recurringExpenses)
                ELSE bills
    /\ last' = [Call("poll", 0, Len(inbox), 0, EmptyMap) EXCEPT !.by = p]
    /\ UNCHANGED <<goals, goalDeposits, orderedGoals, isOpen, billPayments, otherVars>>

\* AppShell.handleManualSync: GET /api/external empties the inbox and the body of the
\* response is never read (a sync that finds the inbox empty changes none of the
\* variables)
handleManualSync ==
    /\ inbox # <<>>
    /\ inbox' = <<>>
    /\ last' = Call("handleManualSync", 0, Len(inbox), 0, EmptyMap)
    /\ UNCHANGED <<goals, goalDeposits, orderedGoals, isOpen, deposits, entries, bills,
                   billPayments, nextId, otherVars>>

\* UnallocatedFundsProvider.removeDeposit (the trash button of a held deposit)
removeDeposit(id) ==
    /\ deposits' = RemoveDepositIn(deposits, id)
    /\ last' = Call("removeDeposit", 0, id, 0, EmptyMap)
    /\ UNCHANGED <<goals, goalDeposits, orderedGoals, isOpen, inbox, entries, bills,
                   billPayments, nextId, otherVars>>

\* UnallocatedFundsProvider.allocateDeposit; the call record keeps the balance the
\* addressed deposit had
allocateDeposit(depositId, amount) ==
    /\ deposits' = AllocateDepositIn(deposits, depositId, amount)
    /\ last' = Call("allocateDeposit", amount, depositId,
                    DepositOfId(deposits, depositId).amountCAD, EmptyMap)
    /\ UNCHANGED <<goals, goalDeposits, orderedGoals, isOpen, inbox, entries, bills,
                   billPayments, nextId, otherVars>>

\* ExpensesView.handleAddBill -> BillsProvider.addBill
addBill(amount) ==
    /\ nextId < MaxQueueIds
    /\ Len(bills) < MaxBills
    /\ bills' = Append(bills, [id |-> Uuid(nextId), name |-> "Rent", amount |-> amount,
                                isPaid |-> FALSE, lastPaidDate |-> NoDate])
    /\ nextId' = nextId + 1
    /\ last' = Plain("addBill")
    /\ UNCHANGED <<goals, goalDeposits, orderedGoals, isOpen, deposits, inbox, entries,
                   billPayments, otherVars>>

\* the provider function the switch on the target calls: none when the target is
\* "bill" and no bill is chosen
TargetCalls(form) ==
    IF form.target = "goal"
    THEN IF form.goal.id = AutoFill THEN <<"addFunds">>
         ELSE IF form.goal.isSide /\ form.goal.parentId # NoSuchId
         THEN <<"addFundsToSideGoal">>
         ELSE <<"addFundsToGoal">>
    ELSE IF form.target = "expense" THEN <<"addEntry">>
    ELSE IF form.billId = NoSuchId THEN <<>>
    ELSE <<"togglePaid">>

\* variant: allocateDeposit called before the switch on the target
ConfirmCallsDrainFirst(form) == <<"allocateDeposit">> \o TargetCalls(form)

\* the calls of confirmAllocation and of confirmAlloc: the switch, then allocateDeposit
ConfirmCalls(form) == TargetCalls(form) \o <<"allocateDeposit">>

\* the body SettingsView.confirmAllocation and FundingInbox.confirmAlloc share:
\* the switch on the target, then allocateDeposit
ConfirmForm(op, depositId, amount, form) ==
    /\ amount > 0
    /\ nextId < MaxQueueIds
    /\ \/ /\ form.target = "goal"
          /\ LET r == GoalBranch(goals, form.goal, amount, nextId)
             IN  /\ goals' = r.goals
                 /\ goalDeposits' = goalDeposits \o r.records
                 /\ nextId' = nextId + Len(r.records)
          /\ UNCHANGED <<entries, bills, billPayments>>
       \/ /\ form.target = "expense"
          /\ entries' = Append(entries, [id |-> Uuid(nextId), amount |-> amount])
          /\ nextId' = nextId + 1
          /\ UNCHANGED <<goals, goalDeposits, bills, billPayments>>
       \/ /\ form.target = "bill"
          /\ LET paid == IF form.billId = NoSuchId THEN <<>>
                         ELSE PaymentsOf(bills, form.billId, nextId)
             IN  /\ bills' = IF form.billId = NoSuchId THEN bills
                             ELSE TogglePaidIn(bills, form.billId, nextId)
                 /\ billPayments' = billPayments \o paid
                 /\ nextId' = nextId + Len(paid)
          /\ UNCHANGED <<goals, goalDeposits, entries>>
    /\ deposits' = AllocateDepositIn(deposits, depositId, amount)
    /\ SyncOrdered
    /\ last' = [Call(op, amount, depositId, form.goal.id, EmptyMap)
                   EXCEPT !.target = form.target, !.calls = ConfirmCalls(form)]
    /\ UNCHANGED <<isOpen, inbox, otherVars>>

\* SettingsView.confirmAllocation: the form of a held deposit in the settings panel
confirmAllocation(depositId, amount, form) ==
    /\ isOpen
    /\ ConfirmForm("confirmAllocation", depositId, amount, form)

\* FundingInbox.confirmAlloc: the Confirm button is disabled while the target is
\* "bill" and no bill is chosen
confirmAlloc(depositId, amount, form) ==
    /\ ~(form.target = "bill" /\ form.billId = NoSuchId)
    /\ ConfirmForm("confirmAlloc", depositId, amount, form)

QueueNext ==
    \/ OpenSettings
    \/ handleClose
    \/ \E p \in GoalIds(goals), t \in SideTargets : addSideGoal(p, t)
    \/ \E amount \in BillAmounts : addBill(amount)
    \/ \E body \in PostBodies : POST(body.amountCAD, body.amountUSD)
    \/ \E p \in Pollers : poll(p)
    \/ handleManualSync
    \/ \E id \in DepositIds(deposits) : removeDeposit(id)
    \/ \E id \in DepositIds(deposits), amount \in AllocAmounts : allocateDeposit(id, amount)
    \/ \E id \in DepositIds(deposits), amount \in EnteredAmounts :
          \E form \in AllocForms(goals, bills, UnpaidBillIds(bills) \cup {NoSuchId}) :
             confirmAllocation(id, amount, form)
    \/ \E id \in DepositIds(deposits), amount \in EnteredAmounts :
          \E form \in AllocForms(goals, bills, UnpaidBillIds(bills)) :
             confirmAlloc(id, amount, form)

SpecQueue == Init /\ [][QueueNext]_vars

---------------------------------------------------------------------------
(* The counterpart app's snapshot and the Bill Ledger: actions *)

\* the expenses of a snapshot: none, one, two, and the same remote id listed twice
AppExpenseLists ==
    {<<>>, <<[id |-> 1, amount |-> 2000]>>,
     <<[id |-> 1, amount |-> 2000], [id |-> 2, amount |-> 3000]>>,
     <<[id |-> 1, amount |-> 2000], [id |-> 1, amount |-> 2000]>>}

\* the recurring bills of a snapshot: none, a bill, the bill renamed and repriced,
\* the same marked inactive, and another bill marked inactive
AppRecurringLists ==
    {<<>>,
     <<[id |-> 1, name |-> "Gym", amount |-> 4000, active |-> TRUE]>>,
     <<[id |-> 1, name |-> "Gym Plus", amount |-> 6000, active |-> TRUE]>>,
     <<[id |-> 1, name |-> "Gym Plus", amount |-> 6000, active |-> FALSE]>>,
     <<[id |-> 2, name |-> "Phone", amount |-> 4000, active |-> FALSE]>>}

AppSnapshots ==
    {[present |-> TRUE, expenses |-> e, recurringExpenses |-> r] :
        e \in AppExpenseLists, r \in AppRecurringLists}

\* POST /api/external with note __FULL_SYNC__ and an appData object, sent by the
\* counterpart app: writeFullSync stores the snapshot that the GETs then return
writeFullSync(snapshot) ==
    /\ appData' = snapshot
    /\ last' = Plain("writeFullSync")
    /\ UNCHANGED <<appVars, serverVars, hydrateVars, laterVars>>

\* the number of times React invokes an updater passed to setBills: once, or twice
\* (in Strict Mode, and when the update is rebased over a setBills of lower priority
\* that a poll merge left pending); every invocation sees the same bill
UpdaterRuns == {1, 2}

\* BillsProvider.togglePaid: the updater passed to setBills records the payment
\* (setBillPayments, uuid()) every time it is invoked
togglePaid(id, runs) ==
    LET first == PaymentsOf(bills, id, nextId)
        paid == IF runs = 1 THEN first
                ELSE first \o PaymentsOf(bills, id, nextId + Len(first))
    IN  /\ paid # <<>> => nextId + Len(paid) <= MaxQueueIds
        /\ bills' = TogglePaidIn(bills, id, nextId + Len(paid) - 1)
        /\ billPayments' = billPayments \o paid
        /\ nextId' = nextId + Len(paid)
        /\ last' = Call("togglePaid", 0, id, 0, EmptyMap)
        /\ UNCHANGED <<goals, goalDeposits, orderedGoals, isOpen, deposits, inbox, entries,
                       otherVars>>

\* BillsProvider.removeBill
removeBill(id) ==
    /\ bills' = SelectSeq(bills, LAMBDA b : b.id # id)
    /\ last' = Call("removeBill", 0, id, 0, EmptyMap)
    /\ UNCHANGED <<goals, goalDeposits, orderedGoals, isOpen, deposits, inbox, entries,
                   billPayments, nextId, otherVars>>

BillIds(bs) == {bs[i].id : i \in DOMAIN bs}

EntryIds(es) == {es[i].id : i \in DOMAIN es}

\* SpendingProvider.removeEntry
removeEntry(id) ==
    /\ entries' = SelectSeq(entries, LAMBDA e : e.id # id)
    /\ last' = Call("removeEntry", 0, id, 0, EmptyMap)
    /\ UNCHANGED <<goals, goalDeposits, orderedGoals, isOpen, deposits, inbox, bills,
                   billPayments, nextId, otherVars>>

SyncNext ==
    \/ \E amount \in BillAmounts : addBill(amount)
    \/ \E snapshot \in AppSnapshots : writeFullSync(snapshot)
    \/ \E p \in Pollers : poll(p)
    \/ \E id \in BillIds(bills), runs \in UpdaterRuns : togglePaid(id, runs)
    \/ \E id \in BillIds(bills) : removeBill(id)
    \/ \E id \in EntryIds(entries) : removeEntry(id)

SpecSync == Init /\ [][SyncNext]_vars

---------------------------------------------------------------------------
(* Cold start: the hydration of the goal list from /api/goals *)

\* the goal lists localStorage can hold at a cold start: the defaults, a list of
\* one funded goal, and no goal at all (every goal was removed)
LocalGoalLists ==
    {DEFAULT_GOALS, <<>>,
     <<[id |-> 1, targetAmount |-> 500000, currentAmount |-> 250000, orderIndex |-> 0,
        sideGoals |-> <<>>]>>}

\* Redis at a cold start: no REDIS_URL, or the key absent or "[]", or a list
RedisStates ==
    {[configured |-> FALSE, goals |-> <<>>]}
    \cup {[configured |-> TRUE, goals |-> gs] :
            gs \in {<<>>, DEFAULT_GOALS,
                    <<[id |-> 2, targetAmount |-> 300000, currentAmount |-> 100000,
                       orderIndex |-> 0, sideGoals |-> <<>>]>>}}

\* the first render of GoalsProvider: goals from localStorage, the mount effect about
\* to fetch, its closure holding the goals of this render
InitHydrate ==
    /\ goals \in LocalGoalLists
    /\ orderedGoals = SortByOrderIndex(goals)
    /\ redisGoals \in RedisStates
    /\ hydration = [pc |-> "mounted", isNull |-> TRUE, remote |-> <<>>, current |-> goals]
    /\ InitRest

\* saveGoalsToAPI -> PUT /api/goals: the key is overwritten when Redis is configured
\* and the request succeeds; a failure is swallowed
SaveGoals(gs, saved) ==
    IF redisGoals.configured /\ saved THEN [redisGoals EXCEPT !.goals = gs]
    ELSE redisGoals

\* fetchGoalsFromAPI -> GET /api/goals: null on 503, 500 or a network error, else the
\* list under the key ([] when the key is absent)
fetchGoalsFromAPI(fails) ==
    /\ hydration.pc = "mounted"
    /\ hydration' = [hydration EXCEPT
                        !.pc = "fetched",
                        !.isNull = ~redisGoals.configured \/ fails,
                        !.remote = IF ~redisGoals.configured \/ fails THEN <<>>
                                   ELSE redisGoals.goals]
    /\ last' = Plain("fetchGoalsFromAPI")
    /\ UNCHANGED <<appVars, serverVars, syncVars, redisGoals, laterVars>>

\* the rest of the mount effect, once the fetch has answered: a populated list
\* replaces the goals (and the persist effect saves them), an empty one has the
\* goals of the first render, or DEFAULT_GOALS when there were none, saved to Redis
hydrate(saved) ==
    /\ hydration.pc = "fetched"
    /\ IF ~hydration.isNull /\ Len(hydration.remote) > 0
       THEN /\ goals' = hydration.remote
            /\ redisGoals' = SaveGoals(hydration.remote, saved)
       ELSE IF ~hydration.isNull
       THEN /\ redisGoals' = SaveGoals(IF Len(hydration.current) > 0 THEN hydration.current
                                       ELSE DEFAULT_GOALS, saved)
            /\ UNCHANGED goals
       ELSE UNCHANGED <<goals, redisGoals>>
    /\ SyncOrdered
    /\ hydration' = [hydration EXCEPT !.pc = "done"]
    /\ last' = Call("hydrate", 0, IF saved THEN 1 ELSE 0, 0, EmptyMap)
    /\ UNCHANGED <<goalDeposits, isOpen, deposits, inbox, entries, bills, billPayments,
                   nextId, serverVars, syncVars, laterVars>>

\* SettingsView trash button -> removeGoal, with the persist effect that follows
\* the render (localStorage, saveGoalsToAPI)
removeGoalAndSave(id, saved) ==
    /\ isOpen
    /\ goals' = RemoveGoalFrom(goals, id)
    /\ redisGoals' = SaveGoals(goals', saved)
    /\ SyncOrdered
    /\ last' = Call("removeGoal", 0, id, 0, EmptyMap)
    /\ UNCHANGED <<goalDeposits, isOpen, deposits, inbox, entries, bills, billPayments,
                   nextId, serverVars, syncVars, hydration, laterVars>>

HydrateNext ==
    \/ OpenSettings
    \/ \E fails \in BOOLEAN : fetchGoalsFromAPI(fails)
    \/ \E saved \in BOOLEAN : hydrate(saved)
    \/ \E id \in GoalIds(goals), saved \in BOOLEAN : removeGoalAndSave(id, saved)

SpecHydrate == InitHydrate /\ [][HydrateNext]_vars

---------------------------------------------------------------------------
(* The inbox endpoint /api/external: pure operators *)

\* the notes that switch the behaviour of a POST
TEST_PING == "__TEST_PING__"
WEBSITE_SYNC == "__WEBSITE_SYNC__"
FULL_SYNC == "__FULL_SYNC__"
ACCOUNT_SYNC == "__ACCOUNT_SYNC__"

\* a request body: letter and code present or not, the note, the amounts, an
\* accountSync object or none, an appData object or none
Body(hasAccount, note, amountCAD, amountUSD, accountSync, hasAppData) ==
    [hasAccount |-> hasAccount, note |-> note, amountCAD |-> amountCAD,
     amountUSD |-> amountUSD, accountSync |-> accountSync, appData |-> hasAppData]

\* the bodies of the POSTs: a payout with no amount, with CA$2500 or with US$1000
\* only, with or without an accountSync object, and without letter and code; each
\* of the four special notes, with an amount and with the objects it reads
RequestBodies ==
    {Body(TRUE, "Payout", a[1], a[2], s, FALSE) :
        a \in {<<0, 0>>, <<250000, 0>>, <<0, 100000>>}, s \in BOOLEAN}
    \cup {Body(FALSE, "Payout", 250000, 0, FALSE, FALSE)}
    \cup {Body(TRUE, TEST_PING, 250000, 0, TRUE, TRUE)}
    \cup {Body(TRUE, WEBSITE_SYNC, 250000, 0, FALSE, FALSE)}
    \cup {Body(TRUE, FULL_SYNC, 250000, 0, s, d) : s \in BOOLEAN, d \in BOOLEAN}
    \cup {Body(TRUE, ACCOUNT_SYNC, a, 0, s, FALSE) : a \in {0, 250000}, s \in BOOLEAN}

\* variant: the handler without its __TEST_PING__ branch
PostKindNoPing(body) ==
    IF ~body.hasAccount THEN "missing"
    ELSE IF body.note = WEBSITE_SYNC THEN "website"
    ELSE IF body.note = FULL_SYNC THEN "full"
    ELSE IF body.accountSync /\ body.note = ACCOUNT_SYNC THEN "account"
    ELSE IF ~Accepts(body.amountCAD, body.amountUSD) THEN "rejected"
    ELSE "deposit"

\* POST: the branch a body takes, in the order the handler tests them
PostKind(body) ==
    IF ~body.hasAccount THEN "missing"
    ELSE IF body.note = TEST_PING THEN "ping"
    ELSE IF body.note = WEBSITE_SYNC THEN "website"
    ELSE IF body.note = FULL_SYNC THEN "full"
    ELSE IF body.accountSync /\ body.note = ACCOUNT_SYNC THEN "account"
    ELSE IF ~Accepts(body.amountCAD, body.amountUSD) THEN "rejected"
    ELSE "deposit"

\* POST: the snapshot slots the branch writes
PostWrites(body) ==
    LET kind == PostKind(body)
    IN  IF kind = "website" THEN {"website-sync"}
        ELSE IF kind = "full"
        THEN (IF body.accountSync THEN {"accounts"} ELSE {})
             \cup (IF body.appData THEN {"full-sync"} ELSE {})
        ELSE IF kind \in {"account", "rejected", "deposit"} /\ body.accountSync
        THEN {"accounts"}
        ELSE {}

\* POST: the status of the response
PostStatus(body) == IF PostKind(body) \in {"missing", "rejected"} THEN 400 ELSE 200

\* readSyncData: the Redis key when Redis answers and holds a value, else the file
ReadSyncData(rs, fs, type, redisReads) ==
    IF redisReads /\ rs[type] # NullData THEN rs[type] ELSE fs[type]

\* writeSyncData on the slots in types: a store whose write fails keeps what it had
WriteSyncData(slot, types, data, written) ==
    [t \in SlotTypes |-> IF t \in types /\ written THEN data ELSE slot[t]]

---------------------------------------------------------------------------
(* The inbox endpoint /api/external: actions *)

\* what the stores do during a POST.  useRedis: getRedisSafe gives a client for the
\* queue; redisWrites, fileWrites: the write of the snapshot to that store succeeds;
\* redisReads: the read of the website snapshot from Redis succeeds
PostOutcomes(body) ==
    {[useRedis |-> u, redisWrites |-> w, fileWrites |-> f, redisReads |-> r] :
        u \in IF PostKind(body) = "deposit" THEN BOOLEAN ELSE {FALSE},
        w \in IF PostWrites(body) # {} THEN BOOLEAN ELSE {FALSE},
        f \in IF PostWrites(body) # {} THEN BOOLEAN ELSE {FALSE},
        r \in IF PostKind(body) = "full" THEN BOOLEAN ELSE {FALSE}}

\* POST /api/external
PostRequest(body, outcome) ==
    LET kind == PostKind(body)
        types == PostWrites(body)
        data == nextVersion + 1
        useRedis == outcome.useRedis
        redisWrites == outcome.redisWrites
        fileWrites == outcome.fileWrites
        redisReads == outcome.redisReads
        deposit == [id |-> srvId + 1, amountCAD |-> body.amountCAD,
                    amountUSD |-> body.amountUSD]
    IN  /\ kind = "deposit" => srvId < MaxEnqueued
        /\ types # {} => nextVersion < MaxWrites
        /\ (kind = "deposit" /\ (redisCached \/ (types # {} /\ redisWrites))) => useRedis
        /\ redisSlot' = WriteSyncData(redisSlot, types, data, redisWrites)
        /\ fileSlot' = WriteSyncData(fileSlot, types, data, fileWrites)
        /\ stored' = WriteSyncData(stored, types, data, redisWrites \/ fileWrites)
        /\ nextVersion' = IF types # {} THEN data ELSE nextVersion
        /\ redisQueue' = IF kind = "deposit" /\ useRedis
                         THEN Append(redisQueue, deposit) ELSE redisQueue
        /\ fileQueue' = IF kind = "deposit" /\ ~useRedis
                        THEN Append(fileQueue, deposit) ELSE fileQueue
        /\ srvId' = IF kind = "deposit" THEN srvId + 1 ELSE srvId
        /\ redisCached' = \/ redisCached
                          \/ kind = "deposit" /\ useRedis
                          \/ types # {} /\ redisWrites
                          \/ kind = "full" /\ redisReads
        /\ http' = Http("POST", body, PostStatus(body),
                        IF kind = "deposit" THEN <<deposit>> ELSE <<>>,
                        NullData, NullData,
                        IF kind = "full"
                        THEN ReadSyncData(redisSlot', fileSlot', "website-sync", redisReads)
                        ELSE NullData)
        /\ last' = Call("PostRequest", 0, IF redisReads THEN 1 ELSE 0, 0, EmptyMap)
        /\ UNCHANGED <<appVars, gets, returned, syncVars, hydrateVars, laterVars>>

\* GET /api/external up to the read of the queue (lRange, or readQueue)
\* (a request in flight takes the first free slot of gets)
GetRead(r, hasAccount, useRedis) ==
    /\ gets[r].pc = "idle"
    /\ \A q \in 1 .. r - 1 : gets[q].pc # "idle"
    /\ redisCached => useRedis
    /\ IF hasAccount
       THEN /\ gets' = [gets EXCEPT ![r] =
                           [pc |-> "read",
                            queue |-> IF useRedis THEN redisQueue ELSE fileQueue,
                            redis |-> useRedis]]
            /\ redisCached' = (redisCached \/ useRedis)
            /\ UNCHANGED http
       ELSE /\ http' = Http("GET", [NoBody EXCEPT !.hasAccount = FALSE], 400, <<>>,
                            NullData, NullData, NullData)
            /\ UNCHANGED <<gets, redisCached>>
    /\ last' = Plain("GetRead")
    /\ UNCHANGED <<appVars, redisQueue, fileQueue, redisSlot, fileSlot, srvId,
                   nextVersion, stored, returned, syncVars, hydrateVars, laterVars>>

\* GET /api/external from the clearing of the queue (del, or writeQueue([])) to the
\* response, with the reads of the accountSync and appData snapshots
GetRespond(r, redisReads) ==
    /\ gets[r].pc = "read"
    /\ LET queue == gets[r].queue
       IN  /\ redisQueue' = IF queue # <<>> /\ gets[r].redis THEN <<>> ELSE redisQueue
           /\ fileQueue' = IF queue # <<>> /\ ~gets[r].redis THEN <<>> ELSE fileQueue
           /\ returned' = returned \o [i \in DOMAIN queue |-> queue[i].id]
           /\ http' = Http("GET", NoBody, 200, queue,
                           ReadSyncData(redisSlot, fileSlot, "accounts", redisReads),
                           ReadSyncData(redisSlot, fileSlot, "full-sync", redisReads),
                           NullData)
    /\ gets' = [gets EXCEPT ![r] = Idle]
    /\ redisCached' = (redisCached \/ redisReads)
    /\ last' = Call("GetRespond", 0, IF redisReads THEN 1 ELSE 0, 0, EmptyMap)
    /\ UNCHANGED <<appVars, redisSlot, fileSlot, srvId, nextVersion, stored, syncVars, hydrateVars, laterVars>>

InboxNext ==
    \/ \E body \in RequestBodies : \E outcome \in PostOutcomes(body) :
          PostRequest(body, outcome)
    \/ \E r \in 1 .. MaxGets, hasAccount, useRedis \in BOOLEAN : GetRead(r, hasAccount, useRedis)
    \/ \E r \in 1 .. MaxGets, redisReads \in BOOLEAN : GetRespond(r, redisReads)

SpecInbox == Init /\ [][InboxNext]_vars

---------------------------------------------------------------------------
(* Properties of the Goal Ledger *)

RECURSIVE MapSum(_)
MapSum(m) ==
    IF DOMAIN m = {} THEN 0
    ELSE LET k == CHOOSE x \in DOMAIN m : TRUE
         IN  m[k] + MapSum([x \in (DOMAIN m) \ {k} |-> m[x]])

GoalOf(gs, id) == CHOOSE g \in Range(gs) : g.id = id

InRange(node) == 0 <= node.currentAmount /\ node.currentAmount <= node.targetAmount

IsFull(node) == node.currentAmount = node.targetAmount

TotalCapacity(gs) == SeqSum([i \in DOMAIN gs |-> gs[i].targetAmount - gs[i].currentAmount])

\* the goals of the chain whose balance a step increased
Increased == {id \in GoalIds(goals) \cap GoalIds(goals') :
                 GoalOf(goals', id).currentAmount > GoalOf(goals, id).currentAmount}

\* C1: after any sequence of addGoal, removeGoal, reorder, addFunds, addFundsToGoal,
\* addSideGoal and addFundsToSideGoal calls with positive amounts, starting from the
\* seeded goals, every goal and every side goal has 0 <= currentAmount <= targetAmount.
C1_BalancesInRange ==
    \A i \in DOMAIN goals :
        /\ InRange(goals[i])
        /\ \A j \in DOMAIN goals[i].sideGoals : InRange(goals[i].sideGoals[j])

\* a side goal was offered more than its capacity and stands exactly at its target
C1_Witness ==
    /\ last.op = "addFundsToSideGoal"
    /\ \E i \in DOMAIN goals : \E j \in DOMAIN goals[i].sideGoals :
          /\ goals[i].sideGoals[j].id = last.b
          /\ IsFull(goals[i].sideGoals[j])
          /\ last.amount > goals[i].sideGoals[j].targetAmount

\* C2: after any sequence of addGoal, removeGoal and reorder (settings close) the
\* orderIndex values of the n goals of the chain are exactly 0 .. n-1, each once.
C2_OrderIndexPermutation ==
    /\ {goals[i].orderIndex : i \in DOMAIN goals} = 0 .. (Len(goals) - 1)
    /\ \A i, j \in DOMAIN goals : goals[i].orderIndex = goals[j].orderIndex => i = j

\* a goal was added, a seed was removed, and a reorder put the new goal below a seed
C2_Witness ==
    /\ last.op = "handleClose"
    /\ Len(goals) = SeedCount
    /\ \E i, j \in DOMAIN goals :
          /\ goals[i].id > SeedCount
          /\ goals[j].id <= SeedCount
          /\ goals[i].orderIndex < goals[j].orderIndex

\* C3: the values of the map addFunds(A) returns sum to min(A, total remaining
\* capacity of the chain): never more than A, and less than A only when the whole
\* chain ends fully funded.
C3_WaterfallConservation ==
    [][ last'.op = "addFunds" =>
            LET A == last'.amount
                sum == MapSum(last'.ret)
            IN  /\ sum = Min(A, TotalCapacity(goals))
                /\ sum <= A
                /\ sum < A => \A i \in DOMAIN goals' : IsFull(goals'[i]) ]_vars

\* addFunds was given more than the chain could take: the excess is in no balance
C3_Witness ==
    /\ last.op = "addFunds"
    /\ MapSum(last.ret) > 0
    /\ MapSum(last.ret) < last.amount
    /\ \A i \in DOMAIN goals : IsFull(goals[i])

\* C4: after addFunds(A) a goal has received a deposit only if every goal with a
\* lower orderIndex is at its targetAmount; when A <= the capacity of the
\* lowest-index goal, that goal receives all of A and no later goal changes.
C4_WaterfallOrder ==
    [][ last'.op = "addFunds" =>
            /\ \A id \in Increased : \A j \in DOMAIN goals' :
                  goals'[j].orderIndex < GoalOf(goals', id).orderIndex => IsFull(goals'[j])
            /\ \A i \in DOMAIN goals :
                  ( /\ \A j \in DOMAIN goals : goals[i].orderIndex <= goals[j].orderIndex
                    /\ last'.amount <= goals[i].targetAmount - goals[i].currentAmount )
                  => /\ GoalOf(goals', goals[i].id).currentAmount =
                           goals[i].currentAmount + last'.amount
                     /\ \A j \in DOMAIN goals :
                           j # i => GoalOf(goals', goals[j].id).currentAmount =
                                       goals[j].currentAmount ]_vars

\* addFunds filled the lowest goal and spilled the rest into the next one
C4_Witness ==
    /\ last.op = "addFunds"
    /\ \E i, j \in DOMAIN goals :
          /\ goals[i].orderIndex < goals[j].orderIndex
          /\ {goals[i].id, goals[j].id} \subseteq DOMAIN last.ret
          /\ IsFull(goals[i])
          /\ ~IsFull(goals[j])

\* C5: the map addFunds(A) returns has a key for exactly the goals whose
\* currentAmount increased, and each value is that goal's increase.
C5_AllocationMap ==
    [][ last'.op = "addFunds" =>
            /\ DOMAIN last'.ret = Increased
            /\ \A id \in DOMAIN last'.ret :
                  last'.ret[id] = GoalOf(goals', id).currentAmount
                                     - GoalOf(goals, id).currentAmount ]_vars

\* three goals at 0, the first filled, the second part filled, the third not reached
C5_Witness ==
    /\ last.op = "addFunds"
    /\ Len(goals) = 3
    /\ \E i, j, k \in DOMAIN goals :
          /\ DOMAIN last.ret = {goals[i].id, goals[j].id}
          /\ last.ret[goals[i].id] = goals[i].targetAmount
          /\ last.ret[goals[j].id] = goals[j].currentAmount
          /\ ~IsFull(goals[j])
          /\ goals[k].currentAmount = 0
          /\ goals[i].orderIndex < goals[j].orderIndex
          /\ goals[j].orderIndex < goals[k].orderIndex

\* C8: after removeGoal(id) on a chain of n+1 goals the remaining n goals have the
\* orderIndex values 0 .. n-1 and keep their relative order.
C8_RemoveGoalReindex ==
    [][ last'.op = "removeGoal" =>
            /\ GoalIds(goals') = GoalIds(goals) \ {last'.a}
            /\ Len(goals') = Len(goals) - 1
            /\ {goals'[i].orderIndex : i \in DOMAIN goals'} = 0 .. (Len(goals') - 1)
            /\ \A x, y \in GoalIds(goals') :
                  (GoalOf(goals', x).orderIndex < GoalOf(goals', y).orderIndex)
                     <=> (GoalOf(goals, x).orderIndex < GoalOf(goals, y).orderIndex) ]_vars

\* the middle seed was removed: the goal above it moved down one index
C8_Witness ==
    /\ last.op = "removeGoal"
    /\ last.a = 2
    /\ GoalIds(goals) = {1, 3}
    /\ GoalOf(goals, 3).orderIndex = 1

\* the balances of a chain: one triple <<id, isSideGoal, currentAmount>> per goal
\* and per side goal
NodeBalances(gs) ==
    {<<gs[i].id, FALSE, gs[i].currentAmount>> : i \in DOMAIN gs}
    \cup UNION {{<<gs[i].sideGoals[j].id, TRUE, gs[i].sideGoals[j].currentAmount>> :
                    j \in DOMAIN gs[i].sideGoals} : i \in DOMAIN gs}

\* <<id, isSideGoal, increase>> for every balance a step increased
BalanceIncreases ==
    {<<p[1][1], p[1][2], p[1][3] - p[2][3]>> :
        p \in {q \in NodeBalances(goals') \X NodeBalances(goals) :
                  q[1][1] = q[2][1] /\ q[1][2] = q[2][2] /\ q[1][3] > q[2][3]}}

\* the GoalDeposit records a step appended
AppendedRecords == SubSeq(goalDeposits', Len(goalDeposits) + 1, Len(goalDeposits'))

\* C6: the GoalDeposit records a call of addFunds, addFundsToGoal or
\* addFundsToSideGoal appends correspond one-to-one to the goals and side goals
\* whose currentAmount the call increased, each with that increase as its amount;
\* a call that increases no balance appends no record.
C6_RecordsMatchIncreases ==
    [][ last'.op \in {"addFunds", "addFundsToGoal", "addFundsToSideGoal"} =>
            /\ Len(AppendedRecords) = Cardinality(BalanceIncreases)
            /\ {<<AppendedRecords[i].goalId, AppendedRecords[i].isSideGoal,
                  AppendedRecords[i].amount>> : i \in DOMAIN AppendedRecords}
                  = BalanceIncreases ]_vars

---------------------------------------------------------------------------
(* Properties of the Unallocated Funds Queue *)

\* the sum of the balances of all goals and side goals
TotalBalances(gs) ==
    SeqSum([i \in DOMAIN gs |->
               gs[i].currentAmount
               + SeqSum([j \in DOMAIN gs[i].sideGoals |-> gs[i].sideGoals[j].currentAmount])])

\* C7: for every confirmed allocation of a held deposit to a goal, a side goal or the
\* auto-fill chain (confirmAllocation, confirmAlloc), whatever amount was entered, the
\* decrease of totalUnallocated equals the total increase of goal and side-goal balances.
C7_AllocationConserves ==
    [][ (last'.op \in {"confirmAllocation", "confirmAlloc"} /\ last'.target = "goal") =>
            TotalUnallocated(deposits) - TotalUnallocated(deposits')
               = TotalBalances(goals') - TotalBalances(goals) ]_vars

\* C9: allocateDeposit(id, a) reduces the amountCAD of the addressed deposit by a and
\* removes the deposit when the remainder is <= 0.01; allocating the full balance of
\* a deposit always removes it; no other deposit changes.
C9_AllocateDeposit ==
    [][ last'.op \in {"allocateDeposit", "confirmAllocation", "confirmAlloc"} =>
            LET id == last'.a
                a  == last'.amount
                d  == DepositOfId(deposits, id)
            IN  /\ IF d.amountCAD - a <= 1
                   THEN id \notin DepositIds(deposits')
                   ELSE /\ id \in DepositIds(deposits')
                        /\ DepositOfId(deposits', id).amountCAD = d.amountCAD - a
                /\ a = d.amountCAD => \A e \in Range(deposits') : e.id # id
                /\ \A e \in Range(deposits) : e.id # id => e \in Range(deposits') ]_vars

\* allocateDeposit was called with the full, positive balance of a held deposit and
\* the deposit is gone
C9_Witness ==
    /\ last.op = "allocateDeposit"
    /\ last.amount > 0
    /\ last.amount = last.b
    /\ last.a \notin DepositIds(deposits)

\* C10: for every deposit the inbox accepts, allocateDeposit(id, 0) leaves
\* totalUnallocated and the set of held deposits unchanged.
C10_ZeroAllocationNoOp ==
    [][ (last'.op = "allocateDeposit" /\ last'.amount = 0) =>
            /\ TotalUnallocated(deposits') = TotalUnallocated(deposits)
            /\ DepositIds(deposits') = DepositIds(deposits) ]_vars

\* C11: every deposit held in the Unallocated Funds Queue has amountCAD >= 0 in every
\* reachable state, on arrival from the inbox and after any allocation.
C11_DepositsNonNegative ==
    \A i \in DOMAIN deposits : deposits[i].amountCAD >= 0

\* C12: every deposit a GET of the website client removes from the inbox, by the
\* periodic poll or by the manual sync, is appended to the Unallocated Funds Queue
\* exactly once, with its amountCAD and amountUSD unchanged.
C12_DrainedDepositsAreHeld ==
    [][ last'.op \in {"poll", "handleManualSync"} =>
            /\ Len(deposits') = Len(deposits) + Len(inbox)
            /\ SubSeq(deposits', 1, Len(deposits)) = deposits
            /\ \A i \in DOMAIN inbox :
                  /\ deposits'[Len(deposits) + i].amountCAD = inbox[i].amountCAD
                  /\ deposits'[Len(deposits) + i].amountUSD = inbox[i].amountUSD ]_vars


---------------------------------------------------------------------------
(* Properties of the inbox endpoint *)

\* C13: the inbox GET delivers at most once: under any interleaving of GETs, two
\* overlapping GETs included, no deposit is returned by more than one GET
C13_AtMostOnceDelivery ==
    \A i, j \in DOMAIN returned : returned[i] = returned[j] => i = j

\* C14: the snapshot slots are last-writer-wins registers: a GET whose Redis read
\* answers returns the accountSync and the appData stored last, and a __FULL_SYNC__
\* POST returns the website snapshot stored last, also when the write to one of the
\* two backing stores failed
C14_ReadsReturnLastStored ==
    /\ (http.method = "GET" /\ http.status = 200 /\ last.a = 1) =>
           /\ http.accountSync = stored["accounts"]
           /\ http.appData = stored["full-sync"]
    /\ (http.method = "POST" /\ http.body.note = FULL_SYNC /\ http.status = 200
           /\ last.a = 1) =>
           http.websiteData = stored["website-sync"]

\* C18: a POST whose note is __TEST_PING__, __WEBSITE_SYNC__ or __FULL_SYNC__ never
\* enqueues a deposit, whatever amounts it carries, and a __TEST_PING__ POST changes
\* nothing the server stores
C18_SentinelsEnqueueNothing ==
    [][ (last'.op = "PostRequest"
           /\ http'.body.note \in {TEST_PING, WEBSITE_SYNC, FULL_SYNC}) =>
            /\ UNCHANGED <<redisQueue, fileQueue, srvId>>
            /\ http'.deposits = <<>>
            /\ http'.body.note = TEST_PING =>
                   UNCHANGED <<redisSlot, fileSlot, stored, redisCached>> ]_vars

\* a __TEST_PING__ POST carrying CA$2500 and both objects was answered 200 while a
\* deposit was queued and a snapshot stored
C18_Witness ==
    /\ last.op = "PostRequest"
    /\ http.body.note = TEST_PING
    /\ http.body.amountCAD > 0
    /\ http.body.accountSync
    /\ http.status = 200
    /\ Len(redisQueue) + Len(fileQueue) = 1
    /\ stored["accounts"] # NullData

\* the queues after a POST hold one deposit more, with the amounts of the body
EnqueuedOne ==
    LET deposit == [id |-> srvId', amountCAD |-> http'.body.amountCAD,
                    amountUSD |-> http'.body.amountUSD]
    IN  /\ srvId' = srvId + 1
        /\ \/ redisQueue' = Append(redisQueue, deposit) /\ UNCHANGED fileQueue
           \/ fileQueue' = Append(fileQueue, deposit) /\ UNCHANGED redisQueue

---------------------------------------------------------------------------
(* Properties of the merges and of the Bill Ledger *)

\* C15: the expense merge never duplicates: after any sequence of polls of the two
\* pollers, snapshots that list a remote id more than once included, the Spending
\* Ledger holds at most one entry with id "app-"+X for each remote expense id X
C15_NoDuplicateExpense ==
    \A i, j \in DOMAIN entries : entries[i].id = entries[j].id => i = j

\* after the merge the Bill Ledger holds exactly one bill with the local id of the
\* remote bill ar, with the name and the amount of ar, unpaid when it is new
Upserted(ar) ==
    /\ Cardinality({i \in DOMAIN bills' : bills'[i].id = SyncId(ar.id)}) = 1
    /\ \A i \in DOMAIN bills' :
          bills'[i].id = SyncId(ar.id) =>
             /\ bills'[i].name = ar.name
             /\ bills'[i].amount = ar.amount
             /\ SyncId(ar.id) \notin BillIds(bills) => ~bills'[i].isPaid

\* the merge leaves every bill of the ledger in its place with its payment state
PaymentStateKept ==
    \A i \in DOMAIN bills :
       /\ i \in DOMAIN bills'
       /\ bills'[i].id = bills[i].id
       /\ bills'[i].isPaid = bills[i].isPaid
       /\ bills'[i].lastPaidDate = bills[i].lastPaidDate

\* C16 as stated: the bill merge of a poll is an upsert of every remote recurring
\* bill (inserted when no local bill has id "app-"+id, else name and amount become
\* the remote's) and never changes isPaid or lastPaidDate of an existing bill
C16_BillUpsertAll ==
    [][ (last'.op = "poll" /\ appData.present) =>
            /\ \A k \in DOMAIN appData.recurringExpenses :
                  Upserted(appData.recurringExpenses[k])
            /\ PaymentStateKept ]_vars

\* C16: the bill merge of a poll is an upsert of every remote recurring bill that is
\* not marked inactive (inserted unpaid when no local bill has id "app-"+id, else
\* name and amount become the remote's), it leaves the ledger as it is when every
\* remote bill is marked inactive, and under any interleaving with togglePaid it
\* never changes isPaid or lastPaidDate of an existing bill
C16_BillUpsertActive ==
    [][ (last'.op = "poll" /\ appData.present) =>
            /\ \A k \in DOMAIN appData.recurringExpenses :
                  appData.recurringExpenses[k].active =>
                     Upserted(appData.recurringExpenses[k])
            /\ (\A k \in DOMAIN appData.recurringExpenses :
                   ~appData.recurringExpenses[k].active) => bills' = bills
            /\ PaymentStateKept ]_vars

\* a poll has renamed and repriced a remote bill that togglePaid had marked paid
\* at its earlier amount, and the bill is still paid
C16_Witness ==
    /\ last.op = "poll"
    /\ \E i \in DOMAIN bills :
          /\ bills[i].id = SyncId(1)
          /\ bills[i].name = "Gym Plus"
          /\ bills[i].amount = 6000
          /\ bills[i].isPaid
          /\ \E k \in DOMAIN billPayments :
                /\ billPayments[k].id = bills[i].lastPaidDate
                /\ billPayments[k].amount = 4000

\* the bills whose isPaid goes from false to true in a step
BecamePaid ==
    {id \in BillIds(bills) :
        \E i \in DOMAIN bills, j \in DOMAIN bills' :
           /\ bills[i].id = id /\ ~bills[i].isPaid
           /\ bills'[j].id = id /\ bills'[j].isPaid}

\* C17: the BillPayment log is append-only and grows by exactly one record for
\* each bill whose isPaid goes from false to true; a toggle from true to false,
\* removeBill and the bill merges add, remove and alter no record
C17_PaymentLogAppendOnly ==
    [][ /\ Len(billPayments') = Len(billPayments) + Cardinality(BecamePaid)
        /\ SubSeq(billPayments', 1, Len(billPayments)) = billPayments ]_vars

---------------------------------------------------------------------------
(* Properties of the cold start *)

\* C20: the hydration of the goal list tells three remote states apart: populated,
\* the local list is replaced by the remote one; empty, the local list is kept and
\* the remote is seeded with the current local list (when the PUT succeeds);
\* unavailable, the local list is kept and nothing is pushed
C20_HydrationThreeStates ==
    [][ last'.op = "hydrate" =>
            IF hydration.isNull
            THEN goals' = goals /\ redisGoals' = redisGoals
            ELSE IF hydration.remote # <<>>
            THEN goals' = hydration.remote
            ELSE /\ goals' = goals
                 /\ last'.a = 1 => redisGoals'.goals = goals ]_vars

---------------------------------------------------------------------------
(* Further properties of the Goal Ledger *)

\* C22: addFundsToGoal(goalId, amount) with a goalId that matches no goal changes
\* neither the goal list nor the GoalDeposit log
C22_UnknownGoalNoOp ==
    [][ (last'.op = "addFundsToGoal" /\ last'.a \notin GoalIds(goals)) =>
            /\ goals' = goals
            /\ goalDeposits' = goalDeposits ]_vars

\* C30: closing the settings panel gives each goal the orderIndex of its position in
\* the submitted list and changes nothing else: the same goals as before the close,
\* each with its id, targetAmount, currentAmount and sideGoals, whatever fund
\* operation changed the goals while the panel was open
C30_ReorderCommit ==
    [][ last'.op = "handleClose" =>
            /\ Len(goals') = Len(orderedGoals)
            /\ GoalIds(goals') = GoalIds(goals)
            /\ Len(goals') = Len(goals)
            /\ \A i \in DOMAIN goals' :
                  /\ goals'[i].id = orderedGoals[i].id
                  /\ goals'[i].orderIndex = i - 1
                  /\ goals'[i] = [GoalOf(goals, goals'[i].id) EXCEPT !.orderIndex = i - 1] ]_vars

\* a close that committed a dragged order of goals of which one had been funded
C30_Witness ==
    /\ last.op = "handleClose"
    /\ Len(goals) >= 2
    /\ goals[1].id > goals[2].id
    /\ \E i \in DOMAIN goals : goals[i].currentAmount > 0

---------------------------------------------------------------------------
(* Goal Ledger: side goals and their sub-goals *)

\* the goal lists localStorage can hold when the provider mounts: none stored (the
\* seeds), and a stored chain whose first goal has a side goal with one sub-goal
StoredGoalLists ==
    {DEFAULT_GOALS,
     [DEFAULT_GOALS EXCEPT ![1].sideGoals =
         << [id |-> 21, targetAmount |-> 300000, currentAmount |-> 0,
             subGoals |-> << [id |-> 22, targetAmount |-> 100000, currentAmount |-> 0,
                              subGoals |-> <<>>] >>] >>]}

InitSide ==
    /\ goals \in StoredGoalLists
    /\ orderedGoals = SortByOrderIndex(goals)
    /\ redisGoals = [configured |-> FALSE, goals |-> <<>>]
    /\ hydration = Hydrated
    /\ InitRest

\* the ids of the sub-goals under the side goals of a goal
SubGoalIds(g) ==
    UNION {{g.sideGoals[j].subGoals[k].id : k \in DOMAIN g.sideGoals[j].subGoals} :
              j \in DOMAIN g.sideGoals}

\* addSubSideGoal: (g.sideGoals || []).map(...)
AddSubGoalIn(sgs, sideGoalId, id, targetAmount) ==
    [j \in DOMAIN sgs |->
        IF sgs[j].id # sideGoalId THEN sgs[j]
        ELSE [sgs[j] EXCEPT !.subGoals = Append(@, NewSideGoal(id, targetAmount))]]

\* addSubSideGoal: prev.map(...)
AddSubSideGoalIn(gs, parentGoalId, sideGoalId, id, targetAmount) ==
    [i \in DOMAIN gs |->
        IF gs[i].id # parentGoalId THEN gs[i]
        ELSE [gs[i] EXCEPT !.sideGoals = AddSubGoalIn(@, sideGoalId, id, targetAmount)]]

\* removeSideGoal: prev.map(...) with (g.sideGoals || []).filter(...)
RemoveSideGoalIn(gs, parentGoalId, sideGoalId) ==
    [i \in DOMAIN gs |->
        IF gs[i].id # parentGoalId THEN gs[i]
        ELSE [gs[i] EXCEPT !.sideGoals = SelectSeq(@, LAMBDA sg : sg.id # sideGoalId)]]

\* SideGoalBranch.handleAddSub -> GoalsProvider.addSubSideGoal
addSubSideGoal(parentGoalId, sideGoalId, targetAmount) ==
    /\ nextId < MaxIds
    /\ goals' = AddSubSideGoalIn(goals, parentGoalId, sideGoalId, Uuid(nextId), targetAmount)
    /\ nextId' = nextId + 1
    /\ SyncOrdered
    /\ last' = Call("addSubSideGoal", 0, parentGoalId, sideGoalId, EmptyMap)
    /\ UNCHANGED <<goalDeposits, isOpen, deposits, inbox, entries, bills, billPayments, otherVars>>

\* variant: the removal also drops the records of the side goal from the log
removeSideGoalAndRecords(parentGoalId, sideGoalId) ==
    /\ goals' = RemoveSideGoalIn(goals, parentGoalId, sideGoalId)
    /\ goalDeposits' = SelectSeq(goalDeposits, LAMBDA d : d.goalId # sideGoalId)
    /\ SyncOrdered
    /\ last' = Call("removeSideGoal", 0, parentGoalId, sideGoalId, EmptyMap)
    /\ UNCHANGED <<isOpen, deposits, inbox, entries, bills, billPayments, nextId, otherVars>>

\* SideGoalNode onRemove -> GoalsProvider.removeSideGoal
removeSideGoal(parentGoalId, sideGoalId) ==
    /\ goals' = RemoveSideGoalIn(goals, parentGoalId, sideGoalId)
    /\ SyncOrdered
    /\ last' = Call("removeSideGoal", 0, parentGoalId, sideGoalId, EmptyMap)
    /\ UNCHANGED <<goalDeposits, isOpen, deposits, inbox, entries, bills, billPayments, nextId, otherVars>>

SideNext ==
    \/ LedgerNext
    \/ \E i \in DOMAIN goals : \E sg \in SideGoalIds(goals[i]), t \in SideTargets :
          addSubSideGoal(goals[i].id, sg, t)
    \/ \E i \in DOMAIN goals : \E sg \in SideGoalIds(goals[i]) :
          removeSideGoal(goals[i].id, sg)
    \/ \E i \in DOMAIN goals : \E sub \in SubGoalIds(goals[i]), amount \in FundAmounts :
          addFundsToSideGoal(goals[i].id, sub, amount)

SpecSide == InitSide /\ [][SideNext]_vars

---------------------------------------------------------------------------
(* Properties of the side goals *)

\* the balance of every side goal and sub-goal of the list, by id
SideBalances(gs) ==
    UNION { UNION { {<<gs[i].sideGoals[j].id, gs[i].sideGoals[j].currentAmount>>} \cup
                    { <<gs[i].sideGoals[j].subGoals[k].id,
                        gs[i].sideGoals[j].subGoals[k].currentAmount>> :
                          k \in DOMAIN gs[i].sideGoals[j].subGoals }
                    : j \in DOMAIN gs[i].sideGoals }
            : i \in DOMAIN gs }

\* C23: addFunds changes the currentAmount of no side goal and of no sub-goal, and
\* the balance of a side goal changes only in a call of addFundsToSideGoal
\* addressed to it
C23_SideGoalsOutsideWaterfall ==
    [][ /\ last'.op = "addFunds" =>
              \A i \in DOMAIN goals :
                  GoalOf(goals', goals[i].id).sideGoals = goals[i].sideGoals
        /\ \A x \in SideBalances(goals), y \in SideBalances(goals') :
              (x[1] = y[1] /\ x[2] # y[2]) =>
                  (last'.op = "addFundsToSideGoal" /\ last'.b = x[1]) ]_vars

\* addFunds has filled goals of the chain beside a funded side goal and its sub-goal
C23_Witness ==
    /\ last.op = "addFunds"
    /\ \E id \in DOMAIN last.ret : last.ret[id] > 0
    /\ \E x \in SideBalances(goals) : x[2] > 0
    /\ \E x \in SideBalances(goals) : x[2] = 0

\* C24: the GoalDeposit log is append-only: whatever the ledger operation (removeGoal,
\* removeSideGoal and the reorder included), the log before the step is a prefix of
\* the log after it
C24_GoalDepositsAppendOnly ==
    [][ /\ Len(goalDeposits') >= Len(goalDeposits)
        /\ SubSeq(goalDeposits', 1, Len(goalDeposits)) = goalDeposits ]_vars

\* records of a goal and of a side goal are in the log after the side goal was removed
C24_Witness ==
    /\ last.op = "removeSideGoal"
    /\ \E i \in DOMAIN goalDeposits : goalDeposits[i].goalId = last.b
    /\ Len(goalDeposits) >= 2

---------------------------------------------------------------------------
(* Text: a string is the sequence of its characters *)

LowerCase == <<"a", "b", "c", "d", "e", "f", "g", "h", "i", "j", "k", "l", "m",
               "n", "o", "p", "q", "r", "s", "t", "u", "v", "w", "x", "y", "z">>

UpperCase == <<"A", "B", "C", "D", "E", "F", "G", "H", "I", "J", "K", "L", "M",
               "N", "O", "P", "Q", "R", "S", "T", "U", "V", "W", "X", "Y", "Z">>

Digits == <<"0", "1", "2", "3", "4", "5", "6", "7", "8", "9">>

WhiteSpace == {" "}

\* the place of a character in an alphabet, 0 when it is not in it
IndexIn(alphabet, c) ==
    IF \E i \in DOMAIN alphabet : alphabet[i] = c
    THEN CHOOSE i \in DOMAIN alphabet : alphabet[i] = c
    ELSE 0

\* String.prototype.toUpperCase
ToUpperCase(t) ==
    [i \in DOMAIN t |-> IF IndexIn(LowerCase, t[i]) = 0 THEN t[i]
                        ELSE UpperCase[IndexIn(LowerCase, t[i])]]

RECURSIVE TrimStart(_)
TrimStart(t) ==
    IF t # <<>> /\ Head(t) \in WhiteSpace THEN TrimStart(Tail(t)) ELSE t

RECURSIVE TrimEnd(_)
TrimEnd(t) ==
    IF t # <<>> /\ t[Len(t)] \in WhiteSpace THEN TrimEnd(SubSeq(t, 1, Len(t) - 1)) ELSE t

\* String.prototype.trim
Trim(t) == TrimEnd(TrimStart(t))

\* /[A-Z]/.test(t)
HasUpperCase(t) == \E i \in DOMAIN t : IndexIn(UpperCase, t[i]) # 0

\* /^\d{4}$/.test(t)
IsFourDigits(t) == Len(t) = 4 /\ \A i \in DOMAIN t : IndexIn(Digits, t[i]) # 0

---------------------------------------------------------------------------
(* The route directory of the admin *)

\* routes the directory holds beyond which the form adds no further one
MaxRoutes == 4

\* the code of the admin under the letter A
AdminCode == <<"1", "5", "9", "8">>

\* the labels are left out of the records, as the titles are
DEFAULT_ROUTES == << [letter |-> <<"A">>, codes |-> <<AdminCode>>] >>

\* what the admin types into the letter, code and label fields
LetterTexts == {<<>>, <<"a">>, <<" ", "b">>, <<"C">>, <<"A", "B">>, <<"7">>}
CodeTexts ==
    {<<>>, AdminCode, <<"2", "2", "2", "2">>, <<"2", "2", "2", "2", " ">>,
     <<"0", "0", "7">>, <<"1", "2", "a", "4">>, <<"1", "2", "3", "4", "5">>}
LabelTexts == {<<>>, <<" ">>, <<"U">>}

\* loadRoutes: raw ? JSON.parse(raw) : DEFAULT_ROUTES (the JSON of a directory is
\* parsed back to the arrays and strings it was made from)
LoadRoutes(raw) == IF raw.present THEN raw.value ELSE DEFAULT_ROUTES

\* saveRoutes
SaveRoutes(rs) == [present |-> TRUE, value |-> rs]

\* routes.find((r) => r.letter === letter): the index of the first, 0 when none
FindRoute(rs, letter) ==
    IF \E i \in DOMAIN rs : rs[i].letter = letter
    THEN CHOOSE i \in DOMAIN rs : rs[i].letter = letter /\ \A k \in 1 .. (i - 1) : rs[k].letter # letter
    ELSE 0

\* validateLogin(letter, code).valid
ValidateLogin(raw, letter, code) ==
    LET rs == LoadRoutes(raw)
        i == FindRoute(rs, letter)
    IN  i # 0 /\ \E j \in DOMAIN rs[i].codes : rs[i].codes[j] = code

\* a.letter.localeCompare(b.letter) < 0, for the letters A to Z
LetterBefore(a, b) == IndexIn(UpperCase, a[1]) < IndexIn(UpperCase, b[1])

RECURSIVE InsertByLetter(_, _)
InsertByLetter(rs, r) ==
    IF rs = <<>> THEN <<r>>
    ELSE IF LetterBefore(r.letter, Head(rs).letter) THEN <<r>> \o rs
         ELSE <<Head(rs)>> \o InsertByLetter(Tail(rs), r)

\* updated.sort((a, b) => a.letter.localeCompare(b.letter)): a stable sort
RECURSIVE SortByLetter(_)
SortByLetter(rs) ==
    IF rs = <<>> THEN <<>>
    ELSE InsertByLetter(SortByLetter(SubSeq(rs, 1, Len(rs) - 1)), rs[Len(rs)])

\* handleAddRoute: the three tests of the trimmed fields
IsRouteInput(letter, code, label) ==
    /\ ~(letter = <<>> \/ Len(letter) # 1 \/ ~HasUpperCase(letter))
    /\ ~(code = <<>> \/ Len(code) # 4 \/ ~IsFourDigits(code))
    /\ label # <<>>

\* handleAddRoute: the code is already under the letter
IsDuplicateRoute(rs, letter, code) ==
    /\ FindRoute(rs, letter) # 0
    /\ \E j \in DOMAIN rs[FindRoute(rs, letter)].codes :
          rs[FindRoute(rs, letter)].codes[j] = code

\* handleAddRoute: existing.codes.push or updated.push, then the sort
AddRouteTo(rs, letter, code) ==
    SortByLetter(
        IF FindRoute(rs, letter) # 0
        THEN [rs EXCEPT ![FindRoute(rs, letter)].codes = Append(@, code)]
        ELSE Append(rs, [letter |-> letter, codes |-> <<code>>]))

\* variant: no route is protected
IsAdminRouteNever(letter, code) == FALSE
\* handleRemoveRoute: letter === "A" && code === "1598"
IsAdminRoute(letter, code) == letter = <<"A">> /\ code = AdminCode

\* handleRemoveRoute: routes.map(...).filter((r) => r.codes.length > 0)
RemoveRouteFrom(rs, letter, code) ==
    SelectSeq([i \in DOMAIN rs |->
                  IF rs[i].letter # letter THEN rs[i]
                  ELSE [rs[i] EXCEPT !.codes = SelectSeq(@, LAMBDA c : c # code)]],
              LAMBDA r : Len(r.codes) > 0)

\* the routes of the directory, as pairs of a letter and a code
RoutePairs(rs) ==
    UNION { {<<rs[i].letter, rs[i].codes[j]>> : j \in DOMAIN rs[i].codes} : i \in DOMAIN rs }

\* the admin opens the settings panel: the effect on [isOpen, session.isAdmin]
\* loads the directory
openAdminSettings ==
    /\ ~isOpen
    /\ isOpen' = TRUE
    /\ orderedGoals' = SortByOrderIndex(goals)
    /\ routes' = LoadRoutes(storedRoutes)
    /\ last' = Plain("openSettings")
    /\ UNCHANGED <<goals, goalDeposits, deposits, inbox, entries, bills, billPayments, nextId,
                   serverVars, syncVars, hydrateVars, storedRoutes, pollVars, storeVars,
                   raceVars>>

\* SettingsView.handleAddRoute
handleAddRoute(letterText, codeText, labelText) ==
    /\ isOpen
    /\ Cardinality(RoutePairs(routes)) < MaxRoutes
    /\ LET letter == Trim(ToUpperCase(letterText))
           code == Trim(codeText)
           label == Trim(labelText)
       IN  /\ IF IsRouteInput(letter, code, label) /\ ~IsDuplicateRoute(routes, letter, code)
              THEN /\ routes' = AddRouteTo(routes, letter, code)
                   /\ storedRoutes' = SaveRoutes(routes')
              ELSE UNCHANGED <<routes, storedRoutes>>
           /\ last' = [Call("handleAddRoute", 0, letterText, codeText, EmptyMap)
                          EXCEPT !.by = labelText]
    /\ UNCHANGED <<appVars, serverVars, syncVars, hydrateVars, pollVars, storeVars, raceVars>>

\* SettingsView.handleRemoveRoute (the trash button of a route of the list)
handleRemoveRoute(letter, code) ==
    /\ isOpen
    /\ IF IsAdminRoute(letter, code)
       THEN UNCHANGED <<routes, storedRoutes>>
       ELSE /\ routes' = RemoveRouteFrom(routes, letter, code)
            /\ storedRoutes' = SaveRoutes(routes')
    /\ last' = Call("handleRemoveRoute", 0, letter, code, EmptyMap)
    /\ UNCHANGED <<appVars, serverVars, syncVars, hydrateVars, pollVars, storeVars, raceVars>>

\* PinScreen.handleDigit: the fourth digit of the PIN calls validateLogin
handleDigit(letter, code) ==
    /\ ~isOpen
    /\ last' = [Call("validateLogin", 0, letter, code, EmptyMap)
                   EXCEPT !.target = IF ValidateLogin(storedRoutes, letter, code)
                                     THEN "valid" ELSE "invalid"]
    /\ UNCHANGED <<appVars, otherVars>>

RoutesNext ==
    \/ openAdminSettings
    \/ handleClose
    \/ \E l \in LetterTexts, c \in CodeTexts, b \in LabelTexts : handleAddRoute(l, c, b)
    \/ \E r \in RoutePairs(routes) : handleRemoveRoute(r[1], r[2])
    \/ \E r \in RoutePairs(LoadRoutes(storedRoutes)) \cup {<<<<"B">>, AdminCode>>} :
          handleDigit(r[1], r[2])

SpecRoutes == Init /\ [][RoutesNext]_vars

---------------------------------------------------------------------------
(* Properties of the route directory *)

\* C25: whatever routes the admin adds and removes, starting from the default
\* directory, the directory in localStorage and the one the panel shows hold the
\* code 1598 under the letter A, and validateLogin("A", "1598") is valid
C25_AdminRouteKept ==
    /\ ValidateLogin(storedRoutes, <<"A">>, AdminCode)
    /\ <<<<"A">>, AdminCode>> \in RoutePairs(LoadRoutes(storedRoutes))
    /\ routes # <<>> => <<<<"A">>, AdminCode>> \in RoutePairs(routes)

\* the trash button of A-1598 was pressed in a directory that holds other routes
C25_Witness ==
    /\ last.op = "handleRemoveRoute"
    /\ last.a = <<"A">>
    /\ last.b = AdminCode
    /\ Cardinality(RoutePairs(routes)) >= 3
    /\ storedRoutes.present

---------------------------------------------------------------------------
(* The forms: what is typed into a field, and the handler that reads it *)

\* what a number field holds when its handler runs: nothing (also what the field
\* reports for text that is no number), zero, a negative amount and $2500
AmountTexts == {<<>>, <<"0">>, <<"-", "2", "5">>, <<"2", "5", "0", "0", ".", "0", "0">>}

\* what a title or name field holds: nothing, a blank, a name
TitleTexts == {<<>>, <<" ">>, <<"R">>}

\* what the due-day field of the bill form holds
DayTexts == {<<"1", "5">>, <<"4", "0">>}

\* the longest prefix of digits
RECURSIVE DigitPrefix(_)
DigitPrefix(t) ==
    IF t # <<>> /\ IndexIn(Digits, Head(t)) # 0 THEN <<Head(t)>> \o DigitPrefix(Tail(t))
    ELSE <<>>

\* the number a sequence of digits writes
RECURSIVE DigitsValue(_)
DigitsValue(t) ==
    IF t = <<>> THEN 0
    ELSE 10 * DigitsValue(SubSeq(t, 1, Len(t) - 1)) + (IndexIn(Digits, t[Len(t)]) - 1)

\* the cents the first two digits behind the point write
CentsValue(t) ==
    (IF Len(t) >= 1 THEN 10 * (IndexIn(Digits, t[1]) - 1) ELSE 0)
    + (IF Len(t) >= 2 THEN IndexIn(Digits, t[2]) - 1 ELSE 0)

\* the result of parseFloat and parseInt when no number could be read
NaN == [nan |-> TRUE, value |-> 0]

\* parseFloat, in cents: leading white space, a sign, digits, a point and digits;
\* what follows is ignored, and NaN when there is no digit (no field of the forms
\* holds an exponent)
ParseFloat(t) ==
    LET s == TrimStart(t)
        negative == s # <<>> /\ Head(s) = "-"
        unsigned == IF s # <<>> /\ Head(s) \in {"-", "+"} THEN Tail(s) ELSE s
        whole == DigitPrefix(unsigned)
        rest == SubSeq(unsigned, Len(whole) + 1, Len(unsigned))
        fraction == IF rest # <<>> /\ Head(rest) = "." THEN DigitPrefix(Tail(rest)) ELSE <<>>
        cents == 100 * DigitsValue(whole) + CentsValue(fraction)
    IN  IF whole = <<>> /\ fraction = <<>> THEN NaN
        ELSE [nan |-> FALSE, value |-> IF negative THEN 0 - cents ELSE cents]

\* parseInt: leading white space, a sign and digits
ParseInt(t) ==
    LET s == TrimStart(t)
        negative == s # <<>> /\ Head(s) = "-"
        unsigned == IF s # <<>> /\ Head(s) \in {"-", "+"} THEN Tail(s) ELSE s
        whole == DigitPrefix(unsigned)
    IN  IF whole = <<>> THEN NaN
        ELSE [nan |-> FALSE,
              value |-> IF negative THEN 0 - DigitsValue(whole) ELSE DigitsValue(whole)]

\* variant: only NaN is turned away
IsAmountNotNaN(p) == ~p.nan
\* the test every form makes of its amount: !(!amount || amount <= 0)
IsAmount(p) == ~(p.nan \/ p.value = 0 \/ p.value <= 0)

\* !(!day || day < 1 || day > 31)
IsDueDay(p) == ~(p.nan \/ p.value = 0 \/ p.value < 1 \/ p.value > 31)

\* handleConfirmFund: the loop over the deposits of the render, first in first out
RECURSIVE FifoAllocate(_, _, _, _)
FifoAllocate(ds, snapshot, i, remaining) ==
    IF i > Len(snapshot) \/ remaining <= 0 THEN ds
    ELSE LET take == Min(remaining, snapshot[i].amountCAD)
         IN  FifoAllocate(AllocateDepositIn(ds, snapshot[i].id, take), snapshot, i + 1,
                          remaining - take)

\* handleConfirmFund: the deposits its loop passes to allocateDeposit before
\* `remaining` is used up
RECURSIVE DrainCount(_, _, _)
DrainCount(snapshot, i, remaining) ==
    IF i > Len(snapshot) \/ remaining <= 0 THEN 0
    ELSE 1 + DrainCount(snapshot, i + 1, remaining - Min(remaining, snapshot[i].amountCAD))

\* the calls of handleConfirmFund: the loop of allocateDeposit, then addFundsToGoal
FundCalls(ds, maxAllowed) ==
    [k \in 1 .. DrainCount(ds, 1, maxAllowed) |-> "allocateDeposit"] \o <<"addFundsToGoal">>

\* the record of a submitted form: the text of its title and of its amount
Form(op, titleText, amountText) == Call(op, 0, titleText, amountText, EmptyMap)

\* SettingsView.handleAddGoal
handleAddGoal(titleText, amountText) ==
    /\ isOpen
    /\ nextId < MaxIds
    /\ Len(goals) <= MaxGoals
    /\ LET amount == ParseFloat(amountText)
       IN  IF Trim(titleText) = <<>> \/ ~IsAmount(amount)
           THEN UNCHANGED <<goals, nextId>>
           ELSE /\ goals' = AddGoalTo(goals, Uuid(nextId), amount.value)
                /\ nextId' = nextId + 1
    /\ SyncOrdered
    /\ last' = Form("handleAddGoal", titleText, amountText)
    /\ UNCHANGED <<goalDeposits, isOpen, deposits, inbox, entries, bills, billPayments, otherVars>>

\* MainView.handleAddSideGoal, the modal opened on the goal parentGoalId
handleAddSideGoal(parentGoalId, titleText, amountText) ==
    /\ nextId < MaxIds
    /\ LET amount == ParseFloat(amountText)
       IN  IF Trim(titleText) = <<>> \/ ~IsAmount(amount)
           THEN UNCHANGED <<goals, nextId>>
           ELSE /\ goals' = AddSideGoalIn(goals, parentGoalId, Uuid(nextId), amount.value)
                /\ nextId' = nextId + 1
    /\ SyncOrdered
    /\ last' = Form("handleAddSideGoal", titleText, amountText)
    /\ UNCHANGED <<goalDeposits, isOpen, deposits, inbox, entries, bills, billPayments, otherVars>>

\* SideGoalBranch.handleAddSub
handleAddSub(parentGoalId, sideGoalId, titleText, amountText) ==
    /\ nextId < MaxIds
    /\ LET amt == ParseFloat(amountText)
       IN  IF Trim(titleText) = <<>> \/ ~IsAmount(amt)
           THEN UNCHANGED <<goals, nextId>>
           ELSE /\ goals' = AddSubSideGoalIn(goals, parentGoalId, sideGoalId, Uuid(nextId),
                                             amt.value)
                /\ nextId' = nextId + 1
    /\ SyncOrdered
    /\ last' = Form("handleAddSub", titleText, amountText)
    /\ UNCHANGED <<goalDeposits, isOpen, deposits, inbox, entries, bills, billPayments, otherVars>>

\* AddFunds.handleSubmit
handleSubmit(amountText) ==
    /\ nextId < MaxIds
    /\ LET amount == ParseFloat(amountText)
       IN  IF ~IsAmount(amount)
           THEN UNCHANGED <<goals, goalDeposits, nextId>>
           ELSE LET r == AddFundsTo(goals, amount.value)
                    newDeposits == AllocationRecords(goals, r.allocation, nextId)
                IN  /\ goals' = r.goals
                    /\ goalDeposits' = goalDeposits \o newDeposits
                    /\ nextId' = nextId + Len(newDeposits)
    /\ SyncOrdered
    /\ last' = Form("handleSubmit", <<>>, amountText)
    /\ UNCHANGED <<isOpen, deposits, inbox, entries, bills, billPayments, otherVars>>

\* SideGoalBranch.handleAddFunds
handleAddFunds(parentGoalId, sideGoalId, amountText) ==
    /\ nextId < MaxIds
    /\ LET amt == ParseFloat(amountText)
       IN  IF ~IsAmount(amt)
           THEN UNCHANGED <<goals, goalDeposits, nextId>>
           ELSE LET newDeposits == SideGoalRecords(sideGoalId, amt.value, nextId)
                IN  /\ goals' = AddFundsToSideGoalIn(goals, parentGoalId, sideGoalId, amt.value)
                    /\ goalDeposits' = goalDeposits \o newDeposits
                    /\ nextId' = nextId + Len(newDeposits)
    /\ SyncOrdered
    /\ last' = Form("handleAddFunds", <<>>, amountText)
    /\ UNCHANGED <<isOpen, deposits, inbox, entries, bills, billPayments, otherVars>>

\* SettingsView.confirmAllocation with the fields of its form: the amount, the
\* expense title, the target tab and the options chosen
confirmAllocationForm(depositId, amountText, titleText, form) ==
    /\ isOpen
    /\ nextId < MaxIds
    /\ LET amount == ParseFloat(amountText)
       IN  IF ~IsAmount(amount)
           THEN UNCHANGED <<goals, goalDeposits, deposits, entries, bills, billPayments, nextId>>
           ELSE /\ \/ /\ form.target = "goal"
                      /\ LET r == GoalBranch(goals, form.goal, amount.value, nextId)
                         IN  /\ goals' = r.goals
                             /\ goalDeposits' = goalDeposits \o r.records
                             /\ nextId' = nextId + Len(r.records)
                      /\ UNCHANGED <<entries, bills, billPayments>>
                   \/ /\ form.target = "expense"
                      /\ entries' = Append(entries, [id |-> Uuid(nextId),
                                                     amount |-> amount.value])
                      /\ nextId' = nextId + 1
                      /\ UNCHANGED <<goals, goalDeposits, bills, billPayments>>
                   \/ /\ form.target = "bill"
                      /\ LET paid == IF form.billId = NoSuchId THEN <<>>
                                     ELSE PaymentsOf(bills, form.billId, nextId)
                         IN  /\ bills' = IF form.billId = NoSuchId THEN bills
                                         ELSE TogglePaidIn(bills, form.billId, nextId)
                             /\ billPayments' = billPayments \o paid
                             /\ nextId' = nextId + Len(paid)
                      /\ UNCHANGED <<goals, goalDeposits, entries>>
                /\ deposits' = AllocateDepositIn(deposits, depositId, amount.value)
    /\ SyncOrdered
    /\ last' = [Form("confirmAllocation", titleText, amountText)
                   EXCEPT !.target = form.target,
                          !.calls = IF IsAmount(ParseFloat(amountText))
                                    THEN ConfirmCalls(form) ELSE <<>>]
    /\ UNCHANGED <<isOpen, inbox, otherVars>>

\* MainView.handleGoalTap on a goal with room left, then handleConfirmFund
handleConfirmFund(goalId, amountText) ==
    /\ nextId < MaxIds
    /\ LET amt == ParseFloat(amountText)
           goal == GoalOf(goals, goalId)
           maxAllowed == Min(Min(amt.value, TotalUnallocated(deposits)),
                             goal.targetAmount - goal.currentAmount)
       IN  /\ goal.targetAmount - goal.currentAmount > 0
           /\ IF ~IsAmount(amt) \/ maxAllowed <= 0
              THEN UNCHANGED <<goals, goalDeposits, deposits, nextId>>
              ELSE LET newDeposits == GoalRecords(goals, goalId, maxAllowed, nextId)
                   IN  /\ deposits' = FifoAllocate(deposits, deposits, 1, maxAllowed)
                       /\ goals' = AddFundsToGoalIn(goals, goalId, maxAllowed)
                       /\ goalDeposits' = goalDeposits \o newDeposits
                       /\ nextId' = nextId + Len(newDeposits)
    /\ SyncOrdered
    /\ last' = LET amt == ParseFloat(amountText)
                    goal == GoalOf(goals, goalId)
                    maxAllowed == Min(Min(amt.value, TotalUnallocated(deposits)),
                                      goal.targetAmount - goal.currentAmount)
                IN  [Form("handleConfirmFund", <<>>, amountText)
                        EXCEPT !.amount = goalId,
                               !.calls = IF ~IsAmount(amt) \/ maxAllowed <= 0 THEN <<>>
                                         ELSE FundCalls(deposits, maxAllowed)]
    /\ UNCHANGED <<isOpen, inbox, entries, bills, billPayments, otherVars>>

\* ExpensesView.handleAddSpending -> SpendingProvider.addEntry
handleAddSpending(titleText, amountText) ==
    /\ nextId < MaxIds
    /\ LET amt == ParseFloat(amountText)
       IN  IF Trim(titleText) = <<>> \/ ~IsAmount(amt)
           THEN UNCHANGED <<entries, nextId>>
           ELSE /\ entries' = Append(entries, [id |-> Uuid(nextId), amount |-> amt.value])
                /\ nextId' = nextId + 1
    /\ last' = Form("handleAddSpending", titleText, amountText)
    /\ UNCHANGED <<goals, goalDeposits, orderedGoals, isOpen, deposits, inbox, bills,
                   billPayments, otherVars>>

\* ExpensesView.handleAddBill -> BillsProvider.addBill
handleAddBill(nameText, amountText, dayText) ==
    /\ nextId < MaxIds
    /\ Len(bills) < MaxBills
    /\ LET amt == ParseFloat(amountText)
           day == ParseInt(dayText)
       IN  IF Trim(nameText) = <<>> \/ ~IsAmount(amt) \/ ~IsDueDay(day)
           THEN UNCHANGED <<bills, nextId>>
           ELSE /\ bills' = Append(bills, [id |-> Uuid(nextId), name |-> "Rent",
                                           amount |-> amt.value, isPaid |-> FALSE,
                                           lastPaidDate |-> NoDate])
                /\ nextId' = nextId + 1
    /\ last' = [Form("handleAddBill", nameText, amountText) EXCEPT !.by = dayText]
    /\ UNCHANGED <<goals, goalDeposits, orderedGoals, isOpen, deposits, inbox, entries,
                   billPayments, otherVars>>

FormsNext ==
    \/ openAdminSettings
    \/ handleClose
    \/ \E p \in {"MainView"} : poll(p)
    \/ \E amountCAD \in EnteredAmounts : POST(amountCAD, 0)
    \/ \E t \in TitleTexts, a \in AmountTexts : handleAddGoal(t, a)
    \/ \E p \in GoalIds(goals), t \in TitleTexts, a \in AmountTexts : handleAddSideGoal(p, t, a)
    \/ \E i \in DOMAIN goals : \E sg \in SideGoalIds(goals[i]), t \in TitleTexts, a \in AmountTexts :
          handleAddSub(goals[i].id, sg, t, a)
    \/ \E a \in AmountTexts : handleSubmit(a)
    \/ \E i \in DOMAIN goals : \E sg \in SideGoalIds(goals[i]), a \in AmountTexts :
          handleAddFunds(goals[i].id, sg, a)
    \/ \E id \in DepositIds(deposits), a \in AmountTexts, t \in TitleTexts :
          \E form \in AllocForms(goals, bills, UnpaidBillIds(bills) \cup {NoSuchId}) :
             confirmAllocationForm(id, a, t, form)
    \/ \E g \in GoalIds(goals), a \in AmountTexts : handleConfirmFund(g, a)
    \/ \E t \in TitleTexts, a \in AmountTexts : handleAddSpending(t, a)
    \/ \E t \in TitleTexts, a \in AmountTexts, d \in DayTexts : handleAddBill(t, a, d)
    \/ \E l \in {<<"a">>, <<"7">>}, c \in {<<"2", "2", "2", "2">>, <<"0", "0", "7">>} :
          \E b \in {<<>>, <<"U">>} : handleAddRoute(l, c, b)

SpecForms == Init /\ [][FormsNext]_vars

---------------------------------------------------------------------------
(* Properties of the forms *)

\* the handlers that read an amount, and those that need a title or a name
AmountForms ==
    {"handleAddGoal", "handleAddSideGoal", "handleAddSub", "handleSubmit", "handleAddFunds",
     "confirmAllocation", "handleConfirmFund", "handleAddSpending", "handleAddBill"}
TitleForms ==
    {"handleAddGoal", "handleAddSideGoal", "handleAddSub", "handleAddSpending", "handleAddBill"}

\* the amount typed is no number or is not positive
BadAmount(t) == ParseFloat(t).nan \/ ParseFloat(t).value <= 0

\* the letter typed is not one letter, or the code typed is not four digits
BadRoute(letterText, codeText) ==
    \/ Len(Trim(ToUpperCase(letterText))) # 1
    \/ ~HasUpperCase(Trim(ToUpperCase(letterText)))
    \/ ~IsFourDigits(Trim(codeText))

\* the form submitted in this step is one a handler has to turn away: a bad amount,
\* a blank title or name where the form needs one, a malformed route
TurnedAway ==
    \/ last'.op \in AmountForms /\ BadAmount(last'.b)
    \/ last'.op \in TitleForms /\ Trim(last'.a) = <<>>
    \/ last'.op = "handleAddRoute" /\ BadRoute(last'.a, last'.b)

\* every ledger and the route directory are as they were
LedgersKept ==
    UNCHANGED <<goals, goalDeposits, deposits, entries, bills, billPayments, routes,
                storedRoutes>>

\* C21 as stated: a bad amount, a blank title or name, or a malformed route given
\* to any of the add and allocate handlers, the expense title of confirmAllocation
\* included, leaves every ledger and the route directory unchanged
C21_InvalidInputRejected ==
    [][ (\/ TurnedAway
         \/ /\ last'.op = "confirmAllocation"
            /\ last'.target = "expense"
            /\ Trim(last'.a) = <<>>) => LedgersKept ]_vars

\* C21: a bad amount given to any add or allocate handler, a blank title or name
\* given to add goal, add side goal, add sub-goal, add spending or add bill, or a
\* malformed route given to add route leaves every ledger and the route directory
\* unchanged (the expense title of confirmAllocation may be blank)
C21_InvalidInputRejectedButExpenseTitle ==
    [][ TurnedAway => LedgersKept ]_vars

\* a form with a name and a bad amount was turned away after an earlier form had
\* funded the chain
C21_Witness ==
    /\ last.op \in TitleForms
    /\ Trim(last.a) # <<>>
    /\ BadAmount(last.b)
    /\ goalDeposits # <<>>

---------------------------------------------------------------------------
(* useExternalSync: the poll cycle, step by step *)

\* __WEBSITE_SYNC__ requests after which the timer starts no further poll
MaxPushes == 2

\* what fetch gives the poll: a 200 with the body of the GET, a response that is
\* not ok (400, 500), or a rejection (the network is down)
GetOutcomes == {"ok", "not ok", "rejected"}

\* the snapshots the counterpart app stores in this run
PollSnapshots ==
    {[present |-> TRUE, expenses |-> <<[id |-> 1, amount |-> 2000]>>,
      recurringExpenses |-> <<[id |-> 1, name |-> "Gym", amount |-> 4000, active |-> TRUE]>>],
     [present |-> TRUE, expenses |-> <<>>,
      recurringExpenses |-> <<[id |-> 1, name |-> "Gym Plus", amount |-> 6000, active |-> TRUE]>>]}

\* the hash of the effect that pushes when the Spending Ledger changes
SpendingHash(es) == [i \in DOMAIN es |-> <<es[i].id, es[i].amount>>]

\* variant: the hash of the bills without their isPaid flag
BillsHashNoPaid(bs) == [i \in DOMAIN bs |-> <<bs[i].id, bs[i].amount>>]
\* the hash of the effect that pushes when the Bill Ledger changes
BillsHash(bs) == [i \in DOMAIN bs |-> <<bs[i].id, bs[i].amount, bs[i].isPaid>>]

\* variant: poll without its try and catch, a rejected fetch rejects the poll
PollThrowsUncaught(outcome) == outcome = "rejected"
\* whether the promise of poll() rejects: the whole body sits in try { } catch { }
PollThrows(outcome) == FALSE

\* setTimeout(poll, 2000) / setInterval(poll, POLL_INTERVAL): the timer of the
\* mounted hook starts a poll, and the GET is answered: a 200 carries the queue of
\* the account, which the server empties, and the stored appData
pollFetch(outcome) ==
    /\ mounted
    /\ polling.pc = "idle"
    /\ pushes < MaxPushes
    /\ nextId + Len(inbox) <= MaxQueueIds
    /\ polling' = [pc |-> "pending", outcome |-> outcome,
                   deposits |-> IF outcome = "ok" THEN inbox ELSE <<>>,
                   appData |-> IF outcome = "ok" THEN appData ELSE NoAppData,
                   live |-> TRUE]
    /\ inbox' = IF outcome = "ok" THEN <<>> ELSE inbox
    /\ last' = Plain("pollFetch")
    /\ UNCHANGED <<goals, goalDeposits, orderedGoals, isOpen, deposits, entries, bills,
                   billPayments, nextId, serverVars, syncVars, hydrateVars, shellVars,
                   mounted, pushes, storeVars, raceVars>>

\* AppShell: the user leaves the Goals tab (or logs out): MainView unmounts and the
\* cleanup of the effect clears the two timers.  The providers are mounted above
\* AppShell and stay
unmountPoller ==
    /\ mounted
    /\ mounted' = FALSE
    /\ polling' = [polling EXCEPT !.live = polling.pc = "idle"]
    /\ last' = Plain("unmount")
    /\ UNCHANGED <<appVars, serverVars, syncVars, hydrateVars, shellVars, pushes, storeVars,
                   raceVars>>

\* AppShell: the user comes back to the Goals tab: MainView mounts, the effect sets
\* the timers again
mountPoller ==
    /\ ~mounted
    /\ mounted' = TRUE
    /\ last' = Plain("mount")
    /\ UNCHANGED <<appVars, serverVars, syncVars, hydrateVars, shellVars, polling, pushes,
                   storeVars, raceVars>>

\* the rest of poll, once fetch has settled: a response that is not ok and a
\* rejection end the cycle; a 200 is processed (processDeposits, mergeAppExpenses,
\* mergeAppBills) and pushWebsiteData is awaited, whose own failure is swallowed.
\* The two hash effects of a mounted hook push again when a merge changed a ledger
pollReturn(pushOk) ==
    /\ polling.pc = "pending"
    /\ LET ok == polling.outcome = "ok"
           merged == ok /\ polling.appData.present
       IN  /\ deposits' = IF ok THEN AddDeposits(deposits, polling.deposits, nextId)
                          ELSE deposits
           /\ nextId' = nextId + Len(polling.deposits)
           /\ entries' = IF merged THEN MergeAppExpenses(entries, polling.appData.expenses)
                         ELSE entries
           /\ bills' = IF merged THEN MergeAppBills(bills, polling.appData.recurringExpenses)
                       ELSE bills
           /\ pushes' = pushes + (IF ok THEN 1 ELSE 0)
                        + (IF mounted /\ SpendingHash(entries') # SpendingHash(entries)
                           THEN 1 ELSE 0)
                        + (IF mounted /\ BillsHash(bills') # BillsHash(bills) THEN 1 ELSE 0)
           /\ last' = [Call("pollReturn", IF ok THEN 1 ELSE 0, Len(polling.deposits),
                            IF pushOk THEN 1 ELSE 0,
                            [uncaught |-> PollThrows(polling.outcome)])
                          EXCEPT !.target = polling.outcome,
                                 !.by = IF polling.live THEN "live" ELSE "torn down"]
    /\ polling' = NoPoll
    /\ UNCHANGED <<goals, goalDeposits, orderedGoals, isOpen, inbox, billPayments, serverVars,
                   syncVars, hydrateVars, shellVars, mounted, storeVars, raceVars>>

PollNext ==
    \/ \E outcome \in GetOutcomes : pollFetch(outcome)
    \/ \E pushOk \in BOOLEAN : pollReturn(pushOk)
    \/ unmountPoller
    \/ mountPoller
    \/ \E amountCAD \in {250000} : POST(amountCAD, 0)
    \/ \E snapshot \in PollSnapshots : writeFullSync(snapshot)
    \/ \E fails \in BOOLEAN : fetchGoalsFromAPI(fails)
    \/ \E saved \in BOOLEAN : hydrate(saved)

\* the first render after a login: the goals of the seed, the mount effect of the
\* provider about to fetch
InitPoll ==
    /\ goals = DEFAULT_GOALS
    /\ orderedGoals = SortByOrderIndex(goals)
    /\ redisGoals \in RedisStates
    /\ hydration = [pc |-> "mounted", isNull |-> TRUE, remote |-> <<>>, current |-> goals]
    /\ InitRest

SpecPoll == InitPoll /\ [][PollNext]_vars

---------------------------------------------------------------------------
(* Properties of the poll cycle *)

\* C27: every poll cycle that was started ends with a push-back: when the cycle
\* ends, pushWebsiteData has issued a __WEBSITE_SYNC__ request
C27_EveryCyclePushesBack ==
    [][ last'.op = "pollReturn" => pushes' > pushes ]_vars

\* C29: the response of a poll whose GET was in flight when the timers were
\* cleared is ignored: it adds no deposit and merges no expense and no bill
C29_TornDownPollIgnored ==
    [][ (last'.op = "pollReturn" /\ last'.by = "torn down") =>
            UNCHANGED <<deposits, entries, bills>> ]_vars


\* the ledgers of the website
Ledgers == <<goals, goalDeposits, deposits, entries, bills, billPayments>>

---------------------------------------------------------------------------
(* The accounts: the keys under which the server and the browser store *)

\* deposits a queue holds beyond which no further one is posted to it
MaxQueued == 1

\* the letter and code of the requests the endpoint receives: the route of the
\* directory, and two pairs whose letter or code holds a hyphen (the endpoint tests
\* only that both are present)
AccountList == << <<"A", "1598">>, <<"A", "1-2">>, <<"A-1", "2">> >>

Accounts == {AccountList[n] : n \in DOMAIN AccountList}

\* the place of an account in the list
AccountNo(account) == CHOOSE n \in DOMAIN AccountList : AccountList[n] = account

\* the sessions of the browser: validateLogin admits the routes of the directory
SessionAccounts == {<<"A", "1598">>}

\* the snapshot type a GET hands back through readAccountSync
SyncTypes == {"accounts"}

\* the payloads a snapshot or a ledger can be
Versions == {1}

\* redisKey
RedisKey(letter, code) == "money-goals:inbox:" \o letter \o "-" \o code

\* queueFile
QueueFile(letter, code) == "/tmp/.external-queue/" \o letter \o "-" \o code \o ".json"

\* syncRedisKey
SyncRedisKey(type, letter, code) == "money-goals:sync:" \o type \o ":" \o letter \o "-" \o code

\* syncTmpFile
SyncTmpFile(type, letter, code) ==
    "/tmp/.external-queue/" \o type \o "-" \o letter \o "-" \o code \o ".json"

\* storageKey
StorageKey(prefix, letter, code) == prefix \o "-" \o letter \o "-" \o code

\* the value under a key, <<>> when the key is absent
Lookup(m, k) == IF k \in DOMAIN m THEN m[k] ELSE <<>>

\* what is stored: the account it was stored for, and its amount or payload
Item(account, amount) == [owner |-> account, amount |-> amount]

\* POST /api/external with an amount: rPush, or readQueue and writeQueue
postDeposit(account, useRedis) ==
    /\ IF useRedis
       THEN /\ Len(Lookup(redisDb, RedisKey(account[1], account[2]))) < MaxQueued
            /\ redisDb' = Put(redisDb, RedisKey(account[1], account[2]),
                              Append(Lookup(redisDb, RedisKey(account[1], account[2])),
                                     Item(account, 250000)))
            /\ UNCHANGED tmpDir
       ELSE /\ Len(Lookup(tmpDir, QueueFile(account[1], account[2]))) < MaxQueued
            /\ tmpDir' = Put(tmpDir, QueueFile(account[1], account[2]),
                             Append(Lookup(tmpDir, QueueFile(account[1], account[2])),
                                    Item(account, 250000)))
            /\ UNCHANGED redisDb
    /\ last' = Call("postDeposit", 0, AccountNo(account), 0, <<>>)
    /\ UNCHANGED <<appVars, serverVars, syncVars, hydrateVars, shellVars, pollVars, localStore,
                   raceVars>>

\* POST /api/external with a sentinel note: writeSyncData sets the Redis key when
\* Redis answers and writes the file in any case
postSnapshot(account, type, version, useRedis) ==
    /\ redisDb' = IF useRedis
                  THEN Put(redisDb, SyncRedisKey(type, account[1], account[2]),
                           <<Item(account, version)>>)
                  ELSE redisDb
    /\ tmpDir' = Put(tmpDir, SyncTmpFile(type, account[1], account[2]),
                     <<Item(account, version)>>)
    /\ last' = Call("postSnapshot", 0, AccountNo(account), 0, <<>>)
    /\ UNCHANGED <<appVars, serverVars, syncVars, hydrateVars, shellVars, pollVars, localStore,
                   raceVars>>

\* GET /api/external: the queue of the account is read and emptied (lRange and del,
\* or readQueue and writeQueue), and readAccountSync reads the "accounts" snapshot,
\* Redis first, then the file
getInbox(account, useRedis) ==
    LET key == IF useRedis THEN RedisKey(account[1], account[2])
               ELSE QueueFile(account[1], account[2])
        queue == IF useRedis THEN Lookup(redisDb, key) ELSE Lookup(tmpDir, key)
        fromRedis == IF useRedis
                     THEN Lookup(redisDb, SyncRedisKey("accounts", account[1], account[2]))
                     ELSE <<>>
        accountData == IF fromRedis # <<>> THEN fromRedis
                       ELSE Lookup(tmpDir, SyncTmpFile("accounts", account[1], account[2]))
    IN  /\ queue # <<>> \/ accountData # <<>>
        /\ redisDb' = IF useRedis /\ queue # <<>>
                      THEN [k \in (DOMAIN redisDb) \ {key} |-> redisDb[k]] ELSE redisDb
        /\ tmpDir' = IF ~useRedis /\ queue # <<>> THEN Put(tmpDir, key, <<>>) ELSE tmpDir
        /\ last' = Call("getInbox", 0, AccountNo(account), 0, queue \o accountData)
        /\ UNCHANGED <<appVars, serverVars, syncVars, hydrateVars, shellVars, pollVars,
                       localStore, raceVars>>

\* a ledger mutation in the session of an account: the effect of the provider
\* persists the ledger under the key of the session
persistLedger(account, version) ==
    /\ localStore' = Put(localStore, StorageKey("money-goals-data", account[1], account[2]),
                         <<Item(account, version)>>)
    /\ last' = Call("persistLedger", 0, AccountNo(account), 0, <<>>)
    /\ UNCHANGED <<appVars, serverVars, syncVars, hydrateVars, shellVars, pollVars, redisDb,
                   tmpDir, raceVars>>

AccountsNext ==
    \/ \E account \in Accounts, useRedis \in BOOLEAN : postDeposit(account, useRedis)
    \/ \E account \in Accounts, type \in SyncTypes, version \in Versions, useRedis \in BOOLEAN :
          postSnapshot(account, type, version, useRedis)
    \/ \E account \in Accounts, useRedis \in BOOLEAN : getInbox(account, useRedis)
    \/ \E account \in SessionAccounts, version \in Versions : persistLedger(account, version)

SpecAccounts == Init /\ [][AccountsNext]_vars

---------------------------------------------------------------------------
(* Properties of the accounts *)

\* what the server and the browser hold for an account: its queue, its snapshot
\* slots and its persisted ledger
HeldFor(account, redis, files, browser) ==
    << Lookup(redis, RedisKey(account[1], account[2])),
       Lookup(files, QueueFile(account[1], account[2])),
       [t \in SyncTypes |-> Lookup(redis, SyncRedisKey(t, account[1], account[2]))],
       [t \in SyncTypes |-> Lookup(files, SyncTmpFile(t, account[1], account[2]))],
       Lookup(browser, StorageKey("money-goals-data", account[1], account[2])) >>

\* C26: the accounts are isolated by (letter, code): a request or a ledger mutation
\* for one account leaves the queue, the snapshot slots and the persisted ledger of
\* every other account unchanged, and a GET returns only what was stored for its
\* own account
\* one step of the accounts keeps them apart
KeptApart(account, response) ==
    /\ \A other \in Accounts \ {account} :
          HeldFor(other, redisDb', tmpDir', localStore')
             = HeldFor(other, redisDb, tmpDir, localStore)
    /\ \A i \in DOMAIN response : response[i].owner = account

C26_AccountsIsolated ==
    [][ last'.op \in {"postDeposit", "postSnapshot", "getInbox", "persistLedger"} =>
            KeptApart(AccountList[last'.a], last'.ret) ]_vars


\* C38: sub-goals are never funded: every entry of the subGoals of every side goal
\* has currentAmount = 0, whatever addFundsToSideGoal was called with
C38_SubGoalsNeverFunded ==
    \A i \in DOMAIN goals : \A j \in DOMAIN goals[i].sideGoals :
        \A k \in DOMAIN goals[i].sideGoals[j].subGoals :
            goals[i].sideGoals[j].subGoals[k].currentAmount = 0

\* addFundsToSideGoal was called with the id of a sub-goal of the addressed parent,
\* beside a funded side goal
C38_Witness ==
    /\ last.op = "addFundsToSideGoal"
    /\ last.amount > 0
    /\ \E i \in DOMAIN goals :
          /\ goals[i].id = last.a
          /\ last.b \in SubGoalIds(goals[i])
          /\ \E j \in DOMAIN goals[i].sideGoals : goals[i].sideGoals[j].currentAmount > 0


---------------------------------------------------------------------------
(* Tap-to-fund: MainView.handleConfirmFund on the deposits the poll delivered *)

\* amountCAD of the deposits posted to the inbox ($1000.01, $2500)
TapAmounts == {100001, 250000}

\* what the amount field of the tap-to-fund modal holds
TapTexts == {<<"0">>, <<"1", "0", "0", "0">>, <<"2", "5", "0", "0", ".", "0", "0">>}

TapNext ==
    \/ \E amountCAD \in TapAmounts : POST(amountCAD, 0)
    \/ \E p \in {"MainView"} : poll(p)
    \/ \E goalId \in GoalIds(goals), amountText \in TapTexts :
          handleConfirmFund(goalId, amountText)

SpecTap == Init /\ [][TapNext]_vars

---------------------------------------------------------------------------
(* Properties of tap-to-fund *)

\* C36: tap-to-fund conserves money: handleConfirmFund moves m = min(entered
\* amount, totalUnallocated, remaining capacity of the goal); afterwards
\* totalUnallocated is lower by exactly m and the currentAmount of the goal is
\* higher by exactly m
C36_TapToFundConserves ==
    [][ last'.op = "handleConfirmFund" =>
            LET goal == GoalOf(goals, last'.amount)
                amt == ParseFloat(last'.b)
                m == Min(Min(amt.value, TotalUnallocated(deposits)),
                         goal.targetAmount - goal.currentAmount)
            IN  (IsAmount(amt) /\ m > 0) =>
                    /\ TotalUnallocated(deposits) - TotalUnallocated(deposits') = m
                    /\ GoalOf(goals', goal.id).currentAmount = goal.currentAmount + m ]_vars


---------------------------------------------------------------------------
(* Properties of the requests the inbox turns away *)

\* C37: a POST answered with 400 leaves the server state of the account unchanged:
\* no deposit is enqueued and the stored accountSync, appData and website snapshots
\* are what they were before the request
C37_RejectedPostChangesNothing ==
    [][ (last'.op = "PostRequest" /\ http'.status = 400) =>
            UNCHANGED <<redisQueue, fileQueue, redisSlot, fileSlot>> ]_vars


---------------------------------------------------------------------------
(* The inbox endpoint: POSTs and GETs that overlap *)

\* deposits posted in one run
MaxPosted == 2

\* the deposit a POST builds
QueuedDeposit(id) == [id |-> id, amountCAD |-> 250000, amountUSD |-> 0]

\* POST /api/external with a positive amount, up to the await of the queue: with a
\* Redis client rPush appends the deposit and the handler answers; without one
\* readQueue has read the file and writeQueue is still to come
postStart(w, useRedis) ==
    /\ posts[w].pc = "idle"
    /\ \A q \in 1 .. w - 1 : posts[q].pc # "idle"
    /\ srvId < MaxPosted
    /\ redisCached => useRedis
    /\ srvId' = srvId + 1
    /\ redisCached' = (redisCached \/ useRedis)
    /\ IF useRedis
       THEN /\ redisQueue' = Append(redisQueue, QueuedDeposit(srvId + 1))
            /\ http' = Http("POST", Body(TRUE, "Payout", 250000, 0, FALSE, FALSE), 200,
                            <<QueuedDeposit(srvId + 1)>>, NullData, NullData, NullData)
            /\ UNCHANGED posts
       ELSE /\ posts' = [posts EXCEPT ![w] =
                           [pc |-> "read", queue |-> fileQueue, deposit |-> srvId + 1]]
            /\ UNCHANGED <<redisQueue, http>>
    /\ last' = Call("postStart", 0, srvId + 1, IF useRedis THEN 1 ELSE 0, EmptyMap)
    /\ UNCHANGED <<appVars, fileQueue, redisSlot, fileSlot, gets, nextVersion, stored,
                   returned, syncVars, hydrateVars, shellVars, pollVars, storeVars>>

\* POST /api/external on the file-backed queue, from queue.push(deposit) and
\* writeQueue to the response
postWrite(w) ==
    /\ posts[w].pc = "read"
    /\ fileQueue' = Append(posts[w].queue, QueuedDeposit(posts[w].deposit))
    /\ posts' = [posts EXCEPT ![w] = NoPost]
    /\ http' = Http("POST", Body(TRUE, "Payout", 250000, 0, FALSE, FALSE), 200,
                    <<QueuedDeposit(posts[w].deposit)>>, NullData, NullData, NullData)
    /\ last' = Call("postWrite", 0, posts[w].deposit, 0, EmptyMap)
    /\ UNCHANGED <<appVars, redisQueue, redisSlot, fileSlot, redisCached, gets, srvId,
                   nextVersion, stored, returned, syncVars, hydrateVars, shellVars, pollVars,
                   storeVars>>

RaceNext ==
    \/ \E w \in 1 .. MaxGets, useRedis \in BOOLEAN : postStart(w, useRedis)
    \/ \E w \in 1 .. MaxGets : postWrite(w)
    \/ \E r \in 1 .. MaxGets, useRedis \in BOOLEAN : GetRead(r, TRUE, useRedis)
    \/ \E r \in 1 .. MaxGets, redisReads \in BOOLEAN : GetRespond(r, redisReads)

SpecRace == Init /\ [][RaceNext]_vars

---------------------------------------------------------------------------
(* Properties of the overlapping requests *)

\* the ids of the deposits whose POST was answered with success
AcceptedIds == (1 .. srvId) \ {posts[w].deposit : w \in {q \in DOMAIN posts : posts[q].pc = "read"}}

\* the ids of the deposits a later poll can still receive: those in a queue, and
\* those a GET in flight has read
PendingIds ==
    {redisQueue[i].id : i \in DOMAIN redisQueue}
    \cup {fileQueue[i].id : i \in DOMAIN fileQueue}
    \cup UNION {{gets[r].queue[i].id : i \in DOMAIN gets[r].queue} :
                   r \in {q \in DOMAIN gets : gets[q].pc = "read"}}

\* C35: no accepted deposit is lost inside the inbox: under any interleaving of
\* POSTs and GETs, every deposit whose POST was answered with success has been
\* returned by a GET or can still be returned by one
C35_NoAcceptedDepositLost ==
    \A id \in AcceptedIds : id \in Range(returned) \/ id \in PendingIds


---------------------------------------------------------------------------
(* Properties of the merges after a removal *)

\* C39: removing a merged-in entry does not stick while the snapshot of the
\* counterpart app lists it: after a poll whose appData holds expense X (an active
\* recurring bill X), the Spending Ledger (the Bill Ledger) holds an entry with id
\* "app-" + X, also when the user had removed it, and a bill the poll inserts again
\* comes back unpaid
C39_RemovedEntriesComeBack ==
    [][ (last'.op = "poll" /\ appData.present) =>
            /\ \A i \in DOMAIN appData.expenses :
                  SyncId(appData.expenses[i].id) \in EntryIds(entries')
            /\ \A i \in DOMAIN appData.recurringExpenses :
                  appData.recurringExpenses[i].active =>
                     \E k \in DOMAIN bills' :
                        /\ bills'[k].id = SyncId(appData.recurringExpenses[i].id)
                        /\ bills'[k].id \notin BillIds(bills) => ~bills'[k].isPaid ]_vars

\* a poll has put back the first expense of the snapshot behind the second one, and
\* has put back, unpaid, the bill of the snapshot whose payment is in the log
C39_Witness ==
    /\ last.op = "poll"
    /\ \E i, j \in DOMAIN entries :
          i < j /\ entries[i].id = SyncId(2) /\ entries[j].id = SyncId(1)
    /\ \E k \in DOMAIN bills :
          /\ bills[k].id = SyncId(1)
          /\ ~bills[k].isPaid
          /\ bills[k].lastPaidDate = NoDate
          /\ \E n \in DOMAIN billPayments : billPayments[n].amount \in {4000, 6000}


---------------------------------------------------------------------------
(* useExternalSync: the two effects that push when a ledger changes *)

\* the number of pushWebsiteData calls the two hash effects of the mounted hook make
\* after a render that took the ledgers from es, bs to newEs, newBs (after the
\* first run of the effects the two refs hold a non-empty string)
HashPushes(es, bs, newEs, newBs) ==
    (IF SpendingHash(newEs) # SpendingHash(es) THEN 1 ELSE 0)
    + (IF BillsHash(newBs) # BillsHash(bs) THEN 1 ELSE 0)

\* a change of the Spending Ledger or the Bill Ledger made by a provider call while
\* the hook is mounted, with the effects of the render that follows.  edit names
\* the call: addEntry, removeEntry, addBill, removeBill, togglePaid
watchedEdit(edit, id, amount) ==
    /\ mounted
    /\ polling.pc = "idle"
    /\ pushes < MaxPushes
    /\ nextId < MaxQueueIds
    /\ edit \in {"addBill"} => Len(bills) < MaxBills
    /\ entries' = IF edit = "addEntry"
                  THEN Append(entries, [id |-> Uuid(nextId), amount |-> amount])
                  ELSE IF edit = "removeEntry" THEN SelectSeq(entries, LAMBDA e : e.id # id)
                  ELSE entries
    /\ bills' = IF edit = "addBill"
                THEN Append(bills, [id |-> Uuid(nextId), name |-> "Rent", amount |-> amount,
                                    isPaid |-> FALSE, lastPaidDate |-> NoDate])
                ELSE IF edit = "removeBill" THEN SelectSeq(bills, LAMBDA b : b.id # id)
                ELSE IF edit = "togglePaid" THEN TogglePaidIn(bills, id, nextId)
                ELSE bills
    /\ billPayments' = IF edit = "togglePaid"
                       THEN billPayments \o PaymentsOf(bills, id, nextId)
                       ELSE billPayments
    /\ nextId' = IF edit \in {"addEntry", "addBill"} THEN nextId + 1
                 ELSE IF edit = "togglePaid" THEN nextId + Len(PaymentsOf(bills, id, nextId))
                 ELSE nextId
    /\ pushes' = pushes + HashPushes(entries, bills, entries', bills')
    /\ last' = Call(edit, amount, id, 0, EmptyMap)
    /\ UNCHANGED <<goals, goalDeposits, orderedGoals, isOpen, deposits, inbox, serverVars,
                   syncVars, hydrateVars, shellVars, polling, mounted, storeVars, raceVars>>

PushNext ==
    \/ \E outcome \in GetOutcomes : pollFetch(outcome)
    \/ \E pushOk \in BOOLEAN : pollReturn(pushOk)
    \/ \E snapshot \in PollSnapshots : writeFullSync(snapshot)
    \/ \E amount \in BillAmounts : watchedEdit("addEntry", NoSuchId, amount)
    \/ \E amount \in BillAmounts : watchedEdit("addBill", NoSuchId, amount)
    \/ \E id \in EntryIds(entries) : watchedEdit("removeEntry", id, 0)
    \/ \E id \in BillIds(bills) : watchedEdit("removeBill", id, 0)
    \/ \E id \in BillIds(bills) : watchedEdit("togglePaid", id, 0)

SpecPush == Init /\ [][PushNext]_vars

---------------------------------------------------------------------------
(* Properties of the push on change *)

---------------------------------------------------------------------------
(* The persist effect of the goal store during the initial fetch *)

\* C33: between the mount of GoalsProvider and the completion of the initial remote
\* fetch no PUT overwrites the remote goal list with the local one, also when the
\* user changes the goals in that window: before the mount effect has finished,
\* only its own step changes what Redis holds
C33_NoPutBeforeHydration ==
    [][ (hydration.pc # "done" /\ last'.op # "hydrate") => redisGoals' = redisGoals ]_vars


---------------------------------------------------------------------------
(* Allocation and the durable state: the persist effects of the providers *)

\* the ledgers a provider keeps in localStorage, by the suffix of their key
StoredLedgers == {"data", "deposits", "spending", "bills", "bill-payments", "unallocated"}

\* storageKey(prefix, session) of the signed-in account
LedgerKey(ledger) == StorageKey("money-goals-" \o ledger, "A", "1598")

\* the React state a ledger is persisted from
LedgerState(ledger) ==
    CASE ledger = "data" -> goals
      [] ledger = "deposits" -> goalDeposits
      [] ledger = "spending" -> entries
      [] ledger = "bills" -> bills
      [] ledger = "bill-payments" -> billPayments
      [] OTHER -> deposits

\* the initialiser of useState: the stored list, or the default when the key is absent
Loaded(store, ledger) ==
    IF LedgerKey(ledger) \in DOMAIN store THEN store[LedgerKey(ledger)]
    ELSE IF ledger = "data" THEN DEFAULT_GOALS
    ELSE <<>>

\* the persist effect of a ledger has yet to run: the state of the last render is
\* not what localStorage holds
Pending(ledger) == LedgerState(ledger) # Loaded(localStore, ledger)

\* every effect of the last render has run; React runs them before the next handler
Settled == \A ledger \in StoredLedgers : ~Pending(ledger)

\* variant: one write that saves every ledger
PersistAllIn(store, ledger) ==
    [k \in (DOMAIN store) \cup {LedgerKey(l) : l \in StoredLedgers} |->
        IF \E l \in StoredLedgers : k = LedgerKey(l)
        THEN LedgerState(CHOOSE l \in StoredLedgers : k = LedgerKey(l))
        ELSE store[k]]

\* localStorage.setItem(key, JSON.stringify(state)) of one persist effect
PersistIn(store, ledger) == Put(store, LedgerKey(ledger), LedgerState(ledger))

\* the persist effect of one ledger; the effects of one provider run in the order
\* they are declared (goals before the GoalDeposit log, bills before the payments),
\* those of different providers in the order the providers are nested
persist(ledger) ==
    /\ Pending(ledger)
    /\ ledger = "deposits" => ~Pending("data")
    /\ ledger = "bill-payments" => ~Pending("bills")
    /\ localStore' = PersistIn(localStore, ledger)
    /\ last' = [Plain("persist") EXCEPT !.by = ledger]
    /\ UNCHANGED <<appVars, serverVars, syncVars, hydrateVars, shellVars, pollVars, redisDb,
                   tmpDir, raceVars>>

\* the tab is closed, reloaded or crashes, and the app is opened again: every
\* provider starts from what localStorage holds
restart ==
    /\ goals' = Loaded(localStore, "data")
    /\ goalDeposits' = Loaded(localStore, "deposits")
    /\ entries' = Loaded(localStore, "spending")
    /\ bills' = Loaded(localStore, "bills")
    /\ billPayments' = Loaded(localStore, "bill-payments")
    /\ deposits' = Loaded(localStore, "unallocated")
    /\ isOpen' = FALSE
    /\ SyncOrdered
    /\ last' = Plain("restart")
    /\ UNCHANGED <<inbox, nextId, otherVars>>

\* amountCAD of the deposits posted to the inbox ($1000)
AllocDeposits == {100000}

AllocNext ==
    \/ Settled /\ OpenSettings
    \/ \E amountCAD \in AllocDeposits : POST(amountCAD, 0)
    \/ Settled /\ \E p \in {"MainView"} : poll(p)
    \/ Settled /\ \E amount \in BillAmounts : addBill(amount)
    \/ Settled /\ \E id \in DepositIds(deposits), amount \in EnteredAmounts :
          \E form \in AllocForms(goals, bills, UnpaidBillIds(bills) \cup {NoSuchId}) :
             confirmAllocation(id, amount, form)
    \/ Settled /\ \E id \in DepositIds(deposits), amount \in EnteredAmounts :
          \E form \in AllocForms(goals, bills, UnpaidBillIds(bills)) :
             confirmAlloc(id, amount, form)
    \/ Settled /\ \E goalId \in GoalIds(goals), amountText \in TapTexts :
          handleConfirmFund(goalId, amountText)
    \/ \E ledger \in StoredLedgers : persist(ledger)
    \/ restart

SpecAlloc == Init /\ [][AllocNext]_vars

---------------------------------------------------------------------------
(* Properties of the allocation flows *)

\* the positions of a call in the calls of a handler
Positions(calls, names) == {i \in DOMAIN calls : calls[i] \in names}

\* the provider functions that mutate a target ledger
TargetMutations == {"addFunds", "addFundsToGoal", "addFundsToSideGoal", "addEntry", "togglePaid"}

---------------------------------------------------------------------------
(* Properties of the durable state *)

\* the keys of localStorage whose value a step changed
WrittenKeys(before, after) ==
    {k \in DOMAIN after : k \notin DOMAIN before \/ before[k] # after[k]}

\* C32: an allocation is not atomic in localStorage: no handler writes to it, and
\* each persist effect that follows writes the list of one ledger under one key, so
\* the goals and the held deposits of one allocation are saved by separate steps
\* with a state between them in which only one of the two is saved
C32_SeparateWrites ==
    [][ localStore' # localStore =>
            /\ last'.op = "persist"
            /\ Cardinality(WrittenKeys(localStore, localStore')) = 1
            /\ UNCHANGED <<goals, goalDeposits, deposits, entries, bills, billPayments>> ]_vars

\* a restart after a crash between the two writes of the allocation of the only
\* deposit ever received: the goal is credited with $1000 and the deposit is held
\* in full (the two ids are those of the deposit and of the GoalDeposit record)
C32_Witness ==
    /\ last.op = "restart"
    /\ nextId = 2
    /\ inbox = <<>>
    /\ Len(deposits) = 1
    /\ deposits[1].amountCAD = 100000
    /\ TotalBalances(goals) = 100000
    /\ Loaded(localStore, "data") = goals
    /\ Loaded(localStore, "unallocated") = deposits

\* the other order of the two writes: the deposit is drained and no ledger is credited
C32_LossReached ==
    /\ last.op = "restart"
    /\ nextId = 2
    /\ inbox = <<>>
    /\ LedgerKey("unallocated") \in DOMAIN localStore
    /\ deposits = <<>>
    /\ TotalBalances(goals) = 0
    /\ entries = <<>>
    /\ bills = <<>>

=============================================================================
